---------------------------- MODULE Spec2Model ----------------------------
(***************************************************************************)
(* A model of pcbooth's orchestration engine: the RendererWrapper and its *)
(* one-frame cache, the scoped overrides of job_utilities, and the Job    *)
(* execution pipeline that runs against one shared Studio.                *)
(*                                                                         *)
(* The module holds several specifications that share the variables:      *)
(*   SpecRender   the RendererWrapper API called in any order             *)
(*   SpecOverride with-blocks over the scoped overrides inside a job      *)
(*   SpecJob      the Dispatcher running jobs against the shared Studio   *)
(* A specification leaves the variables of the other parts unchanged.     *)
(***************************************************************************)
EXTENDS Integers, Sequences, FiniteSets, TLC

VARIABLES
    cfg,      \* config.blendcfg: the settings the run was started with
    scene,    \* bpy.context.scene: frame_start, frame_end, frame_current
    rw,       \* one RendererWrapper and the render directory it writes to
    hist,     \* the most recent RendererWrapper calls and what each did
    objs,     \* bpy.data.objects: the visibility flags of every object
    view,     \* view-layer and scene settings the scoped overrides touch
    ov,       \* the scoped override entered last and how it went
    job,      \* the job whose iterate() runs the with-blocks
    studio,   \* the Studio shared by every job
    snap,     \* self.studio of the job executed last: its shallow copy
    heap,     \* the list objects the Studios and the actor classes refer to
    run,      \* what the execute() call made last did
    disk,     \* the files of the render directory and the last clear_frames()
    built     \* the configuration, the loaded scene and the Studio made of them

renderVars == <<cfg, scene, rw, hist>>

overrideVars == <<objs, view, ov, job>>

jobVars == <<studio, snap, heap, run>>

diskVars == <<disk>>

buildVars == <<built>>

(***************************************************************************)
(* Bounds of the model.                                                    *)
(***************************************************************************)
\* underlying render operations in one behaviour
MaxRenders == 3
\* frames of the active scene range beyond frame_start
MaxSpan == 1
\* RendererWrapper calls kept in hist
MaxHist == 2

(***************************************************************************)
(* Small helpers: finite maps with a growing domain (the files on disk).   *)
(***************************************************************************)
Put(f, k, v) == [x \in (DOMAIN f) \cup {k} |-> IF x = k THEN v ELSE f[x]]

Del(f, k) == [x \in (DOMAIN f) \ {k} |-> f[x]]

EmptyMap == [x \in {} |-> 0]

Range(s) == {s[i] : i \in DOMAIN s}

(***************************************************************************)
(* modules/renderer.py                                                     *)
(***************************************************************************)
CACHE_FORMAT == "PNG"

CACHE_NAME == "_tmp_render"

\* config.renders_path: every file name below is relative to it
render_path == "renders/"

\* self.cache_path = None, a format_override that was not given
NoPath == "<None>"

NoFormat == "<None>"

\* An image datablock: the underlying render it holds (its serial number in
\* rw.log, 0 for none) and its size.  NoImage stands for self.cache = None.
NoImage == [serial |-> 0, size |-> "none"]

FullImage(n) == [serial |-> n, size |-> "full"]

\* image.scale(self.tmb_x, self.tmb_y)
scale(img) == [img EXCEPT !.size = "thumb"]

\* bpy.context.scene.render.file_extension after file_format is set
file_extension(format) ==
    CASE format = "PNG" -> ".png"
      [] format = "JPEG" -> ".jpg"
      [] OTHER -> "." \o format

\* _set_image_format: the wrapper's img_ext follows the chosen format
set_image_format(r, format) == [r EXCEPT !.img_ext = file_extension(format)]

\* f"{frame:04}" for a frame >= 0: zero-padded to a width of at least 4
Fmt04(frame) ==
    IF frame < 10 THEN "000" \o ToString(frame)
    ELSE IF frame < 100 THEN "00" \o ToString(frame)
    ELSE IF frame < 1000 THEN "0" \o ToString(frame)
    ELSE ToString(frame)

\* RendererWrapper.__init__.  cache_file is the file at the cache path on
\* disk (NoImage: no such file); wrote maps each file saved by the call in
\* progress to the image saved; nrenders and log count and list the underlying
\* render operations.
NewRendererWrapper ==
    [cache |-> NoImage, cache_path |-> NoPath, img_ext |-> NoFormat,
     cache_file |-> NoImage, wrote |-> EmptyMap, nrenders |-> 0, log |-> <<>>]

\* _init_render: one underlying render (bpy.ops.render.render) written to the
\* cache path, then bpy.data.images.load of that path.  loadable says whether
\* the render left a file that load can read; when it did not, load raises,
\* the error is logged and self.cache keeps its value.
init_render(r, camera, frame, loadable) ==
    LET r1 == set_image_format(r, CACHE_FORMAT)
        n == r.nrenders + 1
    IN  [r1 EXCEPT !.nrenders = n,
                   !.log = Append(@, [camera |-> camera, frame |-> frame]),
                   !.cache_path = render_path \o CACHE_NAME \o r1.img_ext,
                   !.cache_file = IF loadable THEN FullImage(n) ELSE NoImage,
                   !.cache = IF loadable THEN FullImage(n) ELSE @]

\* formats = [format_override] if format_override else self.formats
formats_of(format_override) ==
    IF format_override # NoFormat THEN <<format_override>> ELSE cfg.IMAGE_FORMAT

\* the loop of render(): _save_render of the cache once per format
RECURSIVE save_formats(_, _, _, _)
save_formats(r, file_name, formats, i) ==
    IF i > Len(formats) THEN r
    ELSE LET r1 == set_image_format(r, formats[i])
             abs_path == render_path \o file_name \o r1.img_ext
         IN  save_formats([r1 EXCEPT !.wrote = Put(@, abs_path, r1.cache)],
                          file_name, formats, i + 1)

\* a faulty variant: the cache is never consulted
cache_missing_always(r) == TRUE

\* `if not self.cache:` of render() and thumbnail()
cache_missing(r) == r.cache = NoImage

\* RendererWrapper.render
render(r, camera, frame, file_name, format_override, loadable) ==
    LET r1 == IF cache_missing(r) THEN init_render(r, camera, frame, loadable)
              ELSE r
    IN  IF cache_missing(r1) THEN r1
        ELSE save_formats(r1, file_name, formats_of(format_override), 1)

\* `self.cache = self._init_render(camera)`: _init_render has no return
\* statement, so the assignment stores None over the image it just loaded
thumbnail_init(r, camera, frame, loadable) ==
    [init_render(r, camera, frame, loadable) EXCEPT !.cache = NoImage]

\* a faulty variant: the cached image itself is scaled, no copy is taken
scaled_in_place(cache) == [cache |-> scale(cache), new_render |-> scale(cache)]

\* new_render = self.cache.copy(); new_render.scale(...): the cache after the
\* two statements and the image that is saved
scaled_copy(cache) == [cache |-> cache, new_render |-> scale(cache)]

\* the loop of thumbnail(): copy, scale, save and remove the copy per format
RECURSIVE save_thumbnails(_, _, _, _)
save_thumbnails(r, file_name, formats, i) ==
    IF i > Len(formats) THEN r
    ELSE LET r1 == set_image_format(r, formats[i])
             abs_path == render_path \o file_name \o "_thumbnail" \o r1.img_ext
             sc == scaled_copy(r1.cache)
         IN  save_thumbnails([r1 EXCEPT !.cache = sc.cache,
                                        !.wrote = Put(@, abs_path, sc.new_render)],
                             file_name, formats, i + 1)

\* a faulty variant: without a cached image thumbnail() returns at once
thumbnail_cached_only(r, camera, frame, file_name, format_override, loadable) ==
    IF cache_missing(r) THEN r
    ELSE save_thumbnails(r, file_name, formats_of(format_override), 1)

\* RendererWrapper.thumbnail
thumbnail(r, camera, frame, file_name, format_override, loadable) ==
    LET r1 == IF cache_missing(r) THEN thumbnail_init(r, camera, frame, loadable)
              ELSE r
    IN  IF cache_missing(r1) THEN r1
        ELSE save_thumbnails(r1, file_name, formats_of(format_override), 1)

\* remove_file(filepath) of file_io.py: os.remove, a missing file is ignored;
\* os.remove(None) raises TypeError, which is not caught
remove_file_raises(filepath) == filepath = NoPath

\* a faulty variant: the cache file is removed whatever KEEP_PNGS says
clear_cache_file_always(r) == NoImage

\* `if not config.blendcfg["SETTINGS"]["KEEP_PNGS"]: remove_file(self.cache_path)`
clear_cache_file(r) == IF cfg.KEEP_PNGS THEN r.cache_file ELSE NoImage

\* RendererWrapper.clear_cache when it returns
clear_cache(r) == [r EXCEPT !.cache_file = clear_cache_file(r), !.cache = NoImage]

\* RendererWrapper.clear_cache raises before `self.cache = None`
clear_cache_raises(r) == ~cfg.KEEP_PNGS /\ remove_file_raises(r.cache_path)

\* a faulty variant: the cache is not cleared after the frame
animation_frame_keep(r, camera, frame, file_name, loadable) ==
    render(r, camera, frame, file_name \o "_" \o Fmt04(frame), CACHE_FORMAT, loadable)

\* one pass of the loop of render_animation: render the frame, clear the cache
animation_frame(r, camera, frame, file_name, loadable) ==
    clear_cache(render(r, camera, frame, file_name \o "_" \o Fmt04(frame),
                       CACHE_FORMAT, loadable))

\* RendererWrapper.render_animation from frame on; loadable[f] is the outcome
\* of the render of frame f
RECURSIVE render_animation(_, _, _, _, _, _)
render_animation(r, camera, frame, frame_end, file_name, loadable) ==
    IF frame > frame_end THEN r
    ELSE render_animation(
             animation_frame(r, camera, frame, file_name, loadable[frame]),
             camera, frame + 1, frame_end, file_name, loadable)

(***************************************************************************)
(* modules/job_utilities.py and Camera.dof_override: the scoped overrides. *)
(* A world w is the global state they touch: w.objs, the flags of the      *)
(* objects of bpy.data.objects, and w.view, the view-layer and scene       *)
(* settings together with the depth of field of the camera in use.         *)
(***************************************************************************)
\* bpy.data.objects
Objs == {"o1", "o2"}

\* an element of a component list that has none of the attributes of an object
NoObject == "<no object>"

\* what a step may raise; NoError when it raises nothing
NoError == "none"

Errors == {"AttributeError", "RuntimeError", "OSError"}

NoMaterial == "<None>"

\* the flags of an object nobody has touched, the settings that
\* set_default_compositing and restore_default_cycles leave
DefaultFlags ==
    [hide_render |-> FALSE, hide_viewport |-> FALSE, is_holdout |-> FALSE,
     visible_shadow |-> TRUE, library |-> FALSE]

DefaultView ==
    [material_override |-> NoMaterial, compositing |-> "default",
     cycles |-> "default", animation |-> "cleared", use_dof |-> "True"]

\* component.<attr> = value for every attribute of attrs
Assign(o, component, attrs) ==
    [o EXCEPT ![component] =
        [a \in DOMAIN o[component] |->
            IF a \in DOMAIN attrs THEN attrs[a] ELSE o[component][a]]]

\* for component in components: [if component.library: continue]
\*     component.<attr> = value
\* stops with AttributeError at the first element that is no object
RECURSIVE set_each(_, _, _, _, _)
set_each(o, components, attrs, skip_library, i) ==
    IF i > Len(components) THEN [objs |-> o, raised |-> NoError]
    ELSE IF components[i] \notin Objs
         THEN [objs |-> o, raised |-> "AttributeError"]
    ELSE IF skip_library /\ o[components[i]].library
         THEN set_each(o, components, attrs, skip_library, i + 1)
    ELSE set_each(Assign(o, components[i], attrs), components, attrs,
                  skip_library, i + 1)

\* for component in bpy.data.objects: if component.library: continue
\*     component.hide_render = value
set_hide_render_all(o, value) ==
    [c \in Objs |-> IF o[c].library THEN o[c]
                    ELSE [o[c] EXCEPT !.hide_render = value]]

Outcome(w, objs_result) ==
    [w |-> [w EXCEPT !.objs = objs_result.objs], raised |-> objs_result.raised]

SetView(w, field, value, raised) ==
    [w |-> [w EXCEPT !.view[field] = value], raised |-> raised]

\* The code of an override before its yield.  a.components, a.flag (full,
\* hide_viewport) and a.fails (what the function handed in, or the call into
\* the host, raises) are the arguments of the call.
acquire(kind, w, a) ==
    CASE kind = "holdout_override" ->
            Outcome(w, set_each(IF a.flag THEN set_hide_render_all(w.objs, TRUE)
                                ELSE w.objs,
                                a.components,
                                [is_holdout |-> TRUE, hide_render |-> FALSE],
                                FALSE, 1))
      [] kind = "hide_override" ->
            Outcome(w, set_each(w.objs, a.components,
                                IF a.flag
                                THEN [hide_render |-> TRUE, hide_viewport |-> TRUE]
                                ELSE [hide_render |-> TRUE],
                                FALSE, 1))
      [] kind = "shadow_override" ->
            Outcome(w, set_each(w.objs, a.components,
                                [visible_shadow |-> FALSE], FALSE, 1))
      [] kind = "global_material_override" ->
            IF a.fails # NoError THEN [w |-> w, raised |-> a.fails]
            ELSE SetView(w, "material_override", "_override", NoError)
      [] kind = "compositing_override" ->
            SetView(w, "compositing",
                    IF a.fails # NoError THEN "partial" ELSE "lqbw", a.fails)
      [] kind = "cycles_override" ->
            SetView(w, "cycles",
                    IF a.fails # NoError THEN "partial" ELSE "ultralow", a.fails)
      [] kind = "dof_override" ->
            IF w.view.use_dof = "absent"
            THEN [w |-> w, raised |-> "AttributeError"]
            ELSE SetView(w, "use_dof", "False", NoError)
      [] kind = "user_animation_override" ->
            SetView(w, "animation",
                    IF a.fails # NoError THEN "partial" ELSE "user", a.fails)

\* a faulty variant: the finally block of an override restores nothing
release_nothing(kind, w, a) == [w |-> w, raised |-> NoError]

\* The finally block of an override.

release(kind, w, a) ==
    CASE kind = "holdout_override" ->
            Outcome(w, set_each(set_hide_render_all(w.objs, FALSE),
                                a.components, [is_holdout |-> FALSE], TRUE, 1))
      [] kind = "hide_override" ->
            Outcome(w, set_each(w.objs, a.components,
                                [hide_render |-> FALSE, hide_viewport |-> FALSE],
                                FALSE, 1))
      [] kind = "shadow_override" ->
            Outcome(w, set_each(w.objs, a.components,
                                [visible_shadow |-> TRUE], FALSE, 1))
      [] kind = "global_material_override" ->
            SetView(w, "material_override", NoMaterial, NoError)
      [] kind = "compositing_override" ->
            SetView(w, "compositing", "default", NoError)
      [] kind = "cycles_override" ->
            SetView(w, "cycles", "default", NoError)
      [] kind = "dof_override" ->
            IF ~cfg.DEPTH_OF_FIELD THEN [w |-> w, raised |-> NoError]
            ELSE IF w.view.use_dof = "absent"
                 THEN [w |-> w, raised |-> "AttributeError"]
            ELSE SetView(w, "use_dof", "True", NoError)
      [] kind = "user_animation_override" ->
            SetView(w, "animation", "cleared", NoError)

\* a faulty variant: no override has an except clause
catches_nothing(kind) == {}

\* the except clause of an override: the errors it passes over

catches(kind) ==
    CASE kind \in {"holdout_override", "hide_override", "shadow_override",
                   "dof_override"} -> {"AttributeError"}
      [] kind \in {"global_material_override", "compositing_override",
                   "cycles_override"} -> {"AttributeError", "RuntimeError"}
      [] kind = "user_animation_override" -> {}

\* Entering the with-block of a generator-based context manager: the code up
\* to the yield runs.  When it raises, the except clause and the finally block
\* run and the generator ends without having yielded: the with statement
\* raises what the finally block raised, else RuntimeError ("generator didn't
\* yield") when the error was passed over, else the error itself.
with_enter(kind, w, a) ==
    LET acq == acquire(kind, w, a) IN
    IF acq.raised = NoError
    THEN [w |-> acq.w, yielded |-> TRUE, error |-> NoError]
    ELSE LET rel == release(kind, acq.w, a) IN
         [w |-> rel.w, yielded |-> FALSE,
          error |-> IF rel.raised # NoError THEN rel.raised
                    ELSE IF acq.raised \in catches(kind) THEN "RuntimeError"
                    ELSE acq.raised]

\* Leaving the with-block whose body ended with outcome: the outcome is raised
\* at the yield, the except clause passes over it or not, the finally block
\* runs; an error that was passed over is suppressed by the with statement.
with_exit(kind, w, a, outcome) ==
    LET rel == release(kind, w, a) IN
    [w |-> rel.w,
     error |-> IF rel.raised # NoError THEN rel.raised
               ELSE IF outcome \in catches(kind) THEN NoError
               ELSE outcome]

\* no override entered yet; a job that has not begun
NoOverride ==
    [kind |-> "none", args |-> [components |-> <<>>, flag |-> FALSE, fails |-> NoError],
     pre |-> [objs |-> [c \in Objs |-> DefaultFlags], view |-> DefaultView],
     phase |-> "none", acquire |-> NoError, body |-> "not run",
     error |-> NoError]

NewJob ==
    [status |-> "running", at |-> "loop", combination |-> 0, done |-> 0,
     error |-> NoError]

\* the state of the parts a specification does not exercise
OverrideAtRest ==
    /\ objs = [c \in Objs |-> DefaultFlags]
    /\ view = DefaultView
    /\ ov = NoOverride
    /\ job = NewJob

DiskAtRest ==
    disk = [before |-> {}, files |-> {}, called |-> FALSE, stills |-> {}]

BuildAtRest == built = [status |-> "none"]

RenderAtRest ==
    /\ scene = [frame_start |-> 1, frame_end |-> 1, frame_current |-> 1]
    /\ rw = NewRendererWrapper
    /\ hist = <<>>

(***************************************************************************)
(* core/job.py, jobs/*.py, modules/studio.py: jobs run against one shared  *)
(* Studio.  The lists of a Studio are objects of their own: heap maps the  *)
(* address of a list to its members, and a Studio holds addresses, so that *)
(* the shallow copy a job takes shares its lists with the shared Studio.   *)
(* x = [s |-> a Studio, h |-> a heap] is a job's snapshot and the heap.    *)
(***************************************************************************)
\* Camera.get / Background.get found no actor of that name
NoActor == "<None>"

\* no user-defined action was found in the .blend file
NoAnimation == [x |-> 0, y |-> 0]

JobTypes ==
    {"Static", "Masks", "Stackup", "Highlights", "CameraTransition",
     "FlipTransition", "Animation"}

UserAnimationJobs == {"Static", "Masks"}

\* cls.get(name): the actor of that name among cls.objects
get(h, registry, name) ==
    IF name \in Range(h[registry]) THEN name ELSE NoActor

\* copy(studio): a new Studio whose attributes are those of studio
copy(s) == [a \in DOMAIN s |-> s[a]]

get_keyframe_range(s, default) ==
    IF s.animation_data = NoAnimation \/ default THEN <<1, cfg.FPS>>
    ELSE <<s.animation_data.x, s.animation_data.y>>

\* a faulty variant: the range of the authored keyframes is taken whatever
\* `default` says
set_frames_of_keyframes(s, default) ==
    [s EXCEPT !.frame_start = get_keyframe_range(s, FALSE)[1],
              !.frame_end = get_keyframe_range(s, FALSE)[2]]

\* Studio.set_frames, on the Studio and on bpy.context.scene
set_frames(s, default) ==
    [s EXCEPT !.frame_start = get_keyframe_range(s, default)[1],
              !.frame_end = get_keyframe_range(s, default)[2]]

scene_of(s) ==
    [frame_start |-> s.frame_start, frame_end |-> s.frame_end,
     frame_current |-> s.frame_start]

\* custom_utilities.set_frame_range(start, end)
set_frame_range(sc, start, end) ==
    [sc EXCEPT !.frame_start = start, !.frame_end = end]

\* a faulty variant: the list the attribute is bound to is overwritten
assign_in_place(x, field, value) == [x EXCEPT !.h[x.s[field]] = value]

\* self.studio.<field> = [...]: the attribute of the snapshot is bound to a
\* new list; the list it was bound to is left as it is

assign_list(x, field, value) ==
    [s |-> [x.s EXCEPT ![field] = "job." \o field],
     h |-> Put(x.h, "job." \o field, value)]

\* if background := Background.get("transparent"):
\*     self.studio.backgrounds = [background]
transparent_background(x) ==
    IF get(x.h, "Background.objects", "transparent") # NoActor
    THEN assign_list(x, "backgrounds",
                     <<get(x.h, "Background.objects", "transparent")>>)
    ELSE x

\* a faulty variant: no job narrows its snapshot
override_studio_nothing(type, x) == x

\* _override_studio of each job type

override_studio(type, x) ==
    CASE type = "Stackup" ->
            assign_list(
                IF get(x.h, "Camera.objects", "FRONT") # NoActor
                THEN assign_list(transparent_background(x), "cameras",
                                 <<get(x.h, "Camera.objects", "FRONT")>>)
                ELSE transparent_background(x),
                "positions", <<"TOP">>)
      [] type = "CameraTransition" ->
            IF x.s.is_ortho
            THEN assign_list(transparent_background(x), "cameras", <<>>)
            ELSE transparent_background(x)
      [] type = "FlipTransition" -> transparent_background(x)
      [] type = "Highlights" ->
            assign_list(transparent_background(x), "positions", <<"TOP", "BOTTOM">>)
      [] OTHER -> x

\* ", ".join(names)
RECURSIVE join(_, _)
join(names, i) ==
    IF i > Len(names) THEN ""
    ELSE IF i = Len(names) THEN names[i]
    ELSE names[i] \o ", " \o join(names, i + 1)

\* the members of a list of the snapshot
ListOf(x, field) == x.h[x.s[field]]

\* the values of the items report() prints; a job without parameters has no
\* parameters item
report_items(type, x, params) ==
    {join(ListOf(x, "positions"), 1), join(ListOf(x, "cameras"), 1),
     join(ListOf(x, "backgrounds"), 1)}
    \cup (IF type \in UserAnimationJobs
          THEN {"FRAMES=[" \o join([i \in DOMAIN params.FRAMES |->
                                       params.FRAMES[i].key], 1) \o "]"}
          ELSE {})

\* a faulty variant: report() never gives the skip signal
report_always_runs(type, x, params) == 0

\* Job.report: 1 when one of the items is empty

report(type, x, params) ==
    IF "" \in report_items(type, x, params) THEN 1 ELSE 0

\* UserAnimationJob._parse_frames: self.has_animation_data
has_animation_data(params) == params.FRAMES # <<>>

\* a faulty variant: the keywords resolve to the range of the configuration
parse_frames_default(s, params) ==
    LET frames == IF params.FRAMES = <<>>
                  THEN <<[key |-> "start", frame |-> 0]>> ELSE params.FRAMES
    IN {IF frames[i].key = "start" THEN 1
        ELSE IF frames[i].key = "end" THEN cfg.FPS
        ELSE frames[i].frame : i \in DOMAIN frames}

\* `for frame in self.frames`: self.frames is a set of int, which CPython
\* walks in the order of the slots of its hash table, slot hash(f) % 8 = f % 8
\* for a set of fewer than 5 frames no two of which share a slot
iter_set(frames) ==
    CHOOSE q \in [1..Cardinality(frames) -> frames] :
        /\ Range(q) = frames
        /\ \A i, j \in DOMAIN q : i < j => q[i] % 8 < q[j] % 8

\* UserAnimationJob._parse_frames: self.frames

parse_frames(s, params) ==
    LET frames == IF params.FRAMES = <<>>
                  THEN <<[key |-> "start", frame |-> 0]>> ELSE params.FRAMES
    IN {IF frames[i].key = "start" THEN s.frame_start
        ELSE IF frames[i].key = "end" THEN s.frame_end
        ELSE frames[i].frame : i \in DOMAIN frames}

\* the argument of update_status: None (the default), or an integer
NoTotal == [given |-> FALSE, value |-> 0]

Total(n) == [given |-> TRUE, value |-> n]

\* Job.__init__ and Job._setup: self._iter = 0, self._total = 1
NewProgress == [iter |-> 0, total |-> 1]

\* Job.update_status: `if total:` is false for None and for 0
update_status(p, total) ==
    IF total.given /\ total.value # 0 THEN [p EXCEPT !.total = total.value]
    ELSE [p EXCEPT !.iter = @ + 1]

\* the calls of update_status a job makes one after another: the argument of
\* each call, the counters it found and the counters it left
RECURSIVE status_log(_, _, _)
status_log(p, totals, i) ==
    IF i > Len(totals) THEN <<>>
    ELSE <<[total |-> totals[i], before |-> p,
            after |-> update_status(p, totals[i])]>>
         \o status_log(update_status(p, totals[i]), totals, i + 1)

\* iterate() declares its total once, then reports each finished combination
Progress(total, done) ==
    status_log(NewProgress, <<Total(total)>> \o [i \in 1..done |-> NoTotal], 1)

\* What a call of iterate() did: the snapshot it leaves, the calls of
\* RendererWrapper.render / render_animation and of the FFmpegWrapper it made,
\* what it raised, and whether keyframes it inserted are still in place.
Iterated(s, renders, encoder, raised, keyframes) ==
    [s |-> s, invoked |-> TRUE, renders |-> renders, encoder |-> encoder,
     raised |-> raised, keyframes |-> keyframes]

NotIterated(s) ==
    [s |-> s, invoked |-> FALSE, renders |-> 0, encoder |-> 0,
     raised |-> NoError, keyframes |-> FALSE]

\* the components the jobs highlight: every component of a model that is no
\* PCB, else those whose designator starts with an entry of HIGHLIGHTED
is_highlighted(component, is_pcb) ==
    ~is_pcb \/ component \in {"U1", "U2", "U3"}

highlighted_of(s) ==
    {c \in Range(s.top_components) \cup Range(s.bottom_components) :
        is_highlighted(c, s.is_pcb)}

\* min(self.frames), max(self.frames)
Min(S) == CHOOSE m \in S : \A n \in S : m <= n

Max(S) == CHOOSE m \in S : \A n \in S : m >= n

\* `"end" in frames`, `"start" in frames`
InFrames(params, key) == \E i \in DOMAIN params.FRAMES : params.FRAMES[i].key = key

\* UserAnimationJob.get_frame_suffix
get_frame_suffix(params, frames, frame) ==
    IF params.FRAMES = <<>> THEN ""
    ELSE IF frame = Max(frames) /\ InFrames(params, "end") THEN "_end"
    ELSE IF frame = Min(frames) /\ InFrames(params, "start") THEN "_start"
    ELSE "_" \o Fmt04(frame)

\* camera.name.lower() for the names of Camera's presets
lower(name) ==
    CASE name = "TOP" -> "top"
      [] name = "FRONT" -> "front"
      [] name = "LEFT" -> "left"
      [] name = "RIGHT" -> "right"
      [] name = "ISO" -> "iso"
      [] OTHER -> name

\* position[0]
initial(position) ==
    CASE position = "TOP" -> "T"
      [] position = "BOTTOM" -> "B"
      [] position = "REAR" -> "R"

\* the passes of nested for-loops, one after another
RECURSIVE Flatten(_, _)
Flatten(seqs, i) ==
    IF i > Len(seqs) THEN <<>> ELSE seqs[i] \o Flatten(seqs, i + 1)

\* What iterate() did, with the calls of update_status it made, the outputs
\* it produced in the order it produced them, and the masks it rendered.
Did(it, progress, outputs, masks) ==
    [s |-> it.s, invoked |-> it.invoked, renders |-> it.renders,
     encoder |-> it.encoder, raised |-> it.raised, keyframes |-> it.keyframes,
     progress |-> progress, outputs |-> outputs, masks |-> masks]

\* Studio.add_studio_keyframes(camera): the lights and the backgrounds are
\* keyframed at the first frame, then camera.add_intermediate_keyframe is
\* called with the keywords frame= and focus=, which the method of
\* modules/camera.py does not take
add_studio_keyframes_raises(s) ==
    IF s.frame_start <= s.frame_end THEN "TypeError" ELSE NoError

\* a faulty variant: the loop over the cameras is the outermost one
static_combinations_by_camera(x, frames) ==
    LET positions == ListOf(x, "positions")
        backgrounds == ListOf(x, "backgrounds")
        cameras == ListOf(x, "cameras")
    IN Flatten([c \in DOMAIN cameras |->
         Flatten([p \in DOMAIN positions |->
           Flatten([b \in DOMAIN backgrounds |->
             [f \in DOMAIN frames |->
                 [position |-> positions[p], background |-> backgrounds[b],
                  camera |-> cameras[c], frame |-> frames[f]]]], 1)], 1)], 1)

\* Static.iterate: the passes of `for position ... for background ... for
\* camera ... for frame in self.frames`, in that order

static_combinations(x, frames) ==
    LET positions == ListOf(x, "positions")
        backgrounds == ListOf(x, "backgrounds")
        cameras == ListOf(x, "cameras")
    IN Flatten([p \in DOMAIN positions |->
         Flatten([b \in DOMAIN backgrounds |->
           Flatten([c \in DOMAIN cameras |->
             [f \in DOMAIN frames |->
                 [position |-> positions[p], background |-> backgrounds[b],
                  camera |-> cameras[c], frame |-> frames[f]]]], 1)], 1)], 1)

\* the file name Static gives to the render of a combination
static_filename(c, params, frames) ==
    lower(c.camera) \o initial(c.position) \o "_" \o c.background
        \o get_frame_suffix(params, frames, c.frame)

\* the body of the innermost loop of Static.iterate from pass i on:
\* renderer.render, renderer.thumbnail, renderer.clear_cache on the one
\* RendererWrapper r of the job; the render of pass `fails` leaves no
\* loadable cache file
RECURSIVE static_loop(_, _, _, _, _, _)
static_loop(r, combinations, i, params, frames, fails) ==
    IF i > Len(combinations) THEN <<>>
    ELSE LET c == combinations[i]
             filename == static_filename(c, params, frames)
             r0 == [r EXCEPT !.wrote = EmptyMap]
             r1 == render(r0, c.camera, c.frame, filename, NoFormat, i # fails)
             r2 == thumbnail(r1, c.camera, c.frame, filename, NoFormat, i # fails)
             r3 == clear_cache(r2)
         IN <<[at |-> c, name |-> filename, files |-> DOMAIN r3.wrote,
               rendered |-> r3.nrenders - r.nrenders]>>
            \o static_loop(r3, combinations, i + 1, params, frames, fails)

\* Static.iterate.  self.frames holds the one frame "start" resolved to when
\* the loop over it is reached: with has_animation_data set,
\* add_studio_keyframes raises on the first camera.
static_iterate(x, params, frames, fails) ==
    LET total == Len(ListOf(x, "positions")) * Len(ListOf(x, "cameras"))
                 * Len(ListOf(x, "backgrounds")) * Cardinality(frames)
    IN IF params.FRAMES # <<>> /\ total > 0
          /\ add_studio_keyframes_raises(x.s) # NoError
       THEN Did(Iterated(x.s, 0, 0, add_studio_keyframes_raises(x.s), TRUE),
                Progress(total, 0), <<>>, {})
       ELSE LET combinations == static_combinations(x, iter_set(frames))
            IN Did(Iterated(x.s, Len(combinations), 0, NoError, FALSE),
                   Progress(total, Len(combinations)),
                   static_loop(NewRendererWrapper, combinations, 1, params,
                               frames, fails),
                   {})

\* execute_cmd: subprocess.run(cmd_list, check=True, ...) raises
\* CalledProcessError for a non-zero exit status
execute_cmd(returncode) ==
    IF returncode # 0 THEN "CalledProcessError" ELSE NoError

\* the loop body of Animation, CameraTransition and FlipTransition:
\* render_animation, ffmpeg.run, ffmpeg.reverse, then ffmpeg.thumbnail called
\* with one argument where the method takes two.  first holds the file names
\* of the first combination, returncode the exit status of the encoder run
\* by ffmpeg.run for it.  ffmpeg.clear_frames() is the last statement of
\* iterate().
video_loop(s, combinations, with_override, first, returncode) ==
    IF combinations = 0
    THEN Did(Iterated(s, 0, 0, NoError, FALSE), Progress(0, 0), <<>>, {})
         @@ [cleared_frames |-> TRUE]
    ELSE IF execute_cmd(returncode) # NoError
    THEN Did(Iterated(s, 1, 1, execute_cmd(returncode), ~with_override),
             Progress(combinations, 0), <<>>, {})
         @@ [cleared_frames |-> FALSE]
    ELSE Did(Iterated(s, 1, 2, "TypeError", ~with_override),
             Progress(combinations, 0),
             <<[op |-> "run", name |-> first[1]],
               [op |-> "reverse", name |-> first[2]]>>, {})
         @@ [cleared_frames |-> FALSE]

\* a faulty variant: no combination is skipped
masks_combinations_all(x, frames) ==
    (DOMAIN ListOf(x, "positions")) \X (DOMAIN ListOf(x, "cameras"))
        \X frames \X highlighted_of(x.s)

\* Masks.iterate: the (position, camera, frame, component) combinations that
\* are not skipped, each rendered once per enabled subtype

masks_combinations(x, frames) ==
    {c \in (DOMAIN ListOf(x, "positions")) \X (DOMAIN ListOf(x, "cameras"))
            \X frames \X highlighted_of(x.s) :
        ~(\/ (c[4] \in Range(x.s.top_components)
              /\ ListOf(x, "positions")[c[1]] # "TOP")
          \/ (c[4] \in Range(x.s.bottom_components)
              /\ ListOf(x, "positions")[c[1]] # "BOTTOM" /\ x.s.is_pcb))}

\* len_params = sum(value is True for value in self.params.values())
len_params(params) ==
    (IF params.FULL THEN 1 ELSE 0) + (IF params.COVERED THEN 1 ELSE 0)

\* the subtypes of masks the parameters enable
subtypes(params) ==
    (IF params.FULL THEN {"full"} ELSE {})
    \cup (IF params.COVERED THEN {"covered"} ELSE {})

\* Masks.iterate
masks_iterate(x, params, frames) ==
    LET total == Cardinality(highlighted_of(x.s)) * Len(ListOf(x, "cameras"))
                 * Len(ListOf(x, "positions")) * len_params(params)
                 * Cardinality(frames)
        masks == {[position |-> ListOf(x, "positions")[c[1]],
                   camera |-> ListOf(x, "cameras")[c[2]],
                   frame |-> c[3], component |-> c[4], state |-> state] :
                     c \in masks_combinations(x, frames),
                     state \in subtypes(params)}
    IN IF ~params.FULL /\ ~params.COVERED
       THEN Did(Iterated(x.s, 0, 0, NoError, FALSE), <<>>, <<>>, {})
       ELSE IF params.FRAMES # <<>> /\ ListOf(x, "positions") # <<>>
               /\ ListOf(x, "cameras") # <<>>
               /\ add_studio_keyframes_raises(x.s) # NoError
       THEN Did(Iterated(x.s, 0, 0, add_studio_keyframes_raises(x.s), TRUE),
                Progress(total, 0), <<>>, {})
       ELSE Did(Iterated(x.s, Cardinality(masks), 0, NoError, FALSE),
                Progress(total, Cardinality(masks)), <<>>, masks)

\* the layer objects of the PCB models
MaxLayers == 2

LayerName(i) == "PCB_layer" \o ToString(i)

\* self.studio.rendered_obj.children of a PCB: the solder object and the
\* layer objects, which the scene lists from the last layer to the first
rendered_children(s) ==
    <<"Solder">> \o [i \in 1..s.layers |-> LayerName(s.layers + 1 - i)]

\* get_idx(object): the number the name ends with, 0 for a name without one
get_idx(name) ==
    IF \E i \in 0..MaxLayers : name = LayerName(i)
    THEN CHOOSE i \in 0..MaxLayers : name = LayerName(i)
    ELSE 0

\* sorted([layer for layer in rendered_children if "PCB_layer" in layer.name],
\*        key=get_idx)
layers_of(s) ==
    LET found == SelectSeq(rendered_children(s),
                           LAMBDA o : \E i \in 0..MaxLayers : o = LayerName(i))
    IN CHOOSE q \in [DOMAIN found -> Range(found)] :
          /\ Range(q) = Range(found)
          /\ \A i, j \in DOMAIN q : i < j => get_idx(q[i]) < get_idx(q[j])

\* the jobs that encode videos, and the exit statuses of the encoder
VideoJobs == {"CameraTransition", "FlipTransition", "Animation"}

ReturnCodes == {0, 1}

\* the node groups of bpy.data that a job looks up
NodeGroups == [Color_group : BOOLEAN]

\* Stackup.iterate. The four overrides are entered one after another;
\* solder_switch_override looks up bpy.data.node_groups["Color_group"] inside
\* its try block, the KeyError of a missing group is caught, and its finally
\* clause then reads the local solder_switch_node that was never bound.
\* Within hide_override(components + layers) each pass unhides one more layer
\* and renders layer<abs(idx - len(layers))>.
stackup_iterate(x) ==
    LET layers == IF x.s.is_pcb THEN layers_of(x.s) ELSE <<>>
        N == Len(layers)
        components == x.s.bottom_components \o x.s.top_components \o <<"Solder">>
        shot(k) ==
            [op |-> "render",
             name |-> "layer" \o ToString(IF k - 1 - N < 0 THEN N - (k - 1)
                                          ELSE k - 1 - N),
             layer |-> layers[k],
             visible |-> {layers[j] : j \in 1..k},
             hidden |-> (Range(components) \cup Range(layers))
                        \ {layers[j] : j \in 1..k}]
    IN IF ~x.s.is_pcb \/ N < 2
       THEN Did(Iterated(x.s, 0, 0, NoError, FALSE), <<>>, <<>>, {})
       ELSE IF \E f \in {"positions", "backgrounds", "cameras"} :
                  ListOf(x, f) = <<>>
       THEN Did(Iterated(x.s, 0, 0, "IndexError", FALSE),
                Progress(N, 0), <<>>, {})
       ELSE IF ~x.node_groups.Color_group
       THEN Did(Iterated(x.s, 0, 0, "UnboundLocalError", FALSE),
                Progress(N, 0), <<>>, {})
       ELSE Did(Iterated(x.s, N, 0, NoError, FALSE),
                Progress(N, N), [k \in 1..N |-> shot(k)], {})

Pairs(n) == (n * (n - 1)) \div 2

\* the file names of a transition between two views
transition_names(camera_start, position_start, camera_end, position_end) ==
    <<lower(camera_start) \o initial(position_start) \o "_"
        \o lower(camera_end) \o initial(position_end),
      lower(camera_end) \o initial(position_end) \o "_"
        \o lower(camera_start) \o initial(position_start)>>

iterate(type, x, params, frames, fails) ==
    CASE type = "Static" -> static_iterate(x, params, frames, fails)
      [] type = "Masks" -> masks_iterate(x, params, frames)
      [] type = "Stackup" -> stackup_iterate(x)
      [] type = "Highlights" ->
            LET total == Cardinality(highlighted_of(x.s)) * Len(ListOf(x, "cameras"))
                         * (IF x.s.is_pcb THEN 1 ELSE 2)
                done == Len(ListOf(x, "cameras"))
                     * (Cardinality(highlighted_of(x.s) \cap Range(x.s.top_components))
                        + Cardinality(highlighted_of(x.s) \cap Range(x.s.bottom_components)))
            IN IF ListOf(x, "backgrounds") = <<>>
               THEN Did(Iterated(x.s, 0, 0, "IndexError", FALSE),
                        Progress(total, 0), <<>>, {})
               ELSE Did(Iterated(x.s, done, 0, NoError, FALSE),
                        Progress(total, done), <<>>, {})
      [] type = "CameraTransition" ->
            IF ListOf(x, "backgrounds") = <<>>
            THEN Did(Iterated(x.s, 0, 0, "IndexError", FALSE), <<>>, <<>>, {})
            ELSE video_loop(x.s, Pairs(Len(ListOf(x, "cameras")))
                                 * Len(ListOf(x, "positions")), FALSE,
                            IF Len(ListOf(x, "cameras")) < 2
                               \/ ListOf(x, "positions") = <<>>
                            THEN <<>>
                            ELSE transition_names(
                                     ListOf(x, "cameras")[1], ListOf(x, "positions")[1],
                                     ListOf(x, "cameras")[2], ListOf(x, "positions")[1]),
                            x.returncode)
      [] type = "FlipTransition" ->
            IF ListOf(x, "backgrounds") = <<>>
            THEN Did(Iterated(x.s, 0, 0, "IndexError", FALSE), <<>>, <<>>, {})
            ELSE video_loop(x.s, Pairs(Len(ListOf(x, "positions")))
                                 * Len(ListOf(x, "cameras")), FALSE,
                            IF Len(ListOf(x, "positions")) < 2
                               \/ ListOf(x, "cameras") = <<>>
                            THEN <<>>
                            ELSE transition_names(
                                     ListOf(x, "cameras")[1], ListOf(x, "positions")[1],
                                     ListOf(x, "cameras")[1], ListOf(x, "positions")[2]),
                            x.returncode)
      [] type = "Animation" ->
            LET s == set_frames(x.s, FALSE)
                total == Len(ListOf(x, "cameras")) * Len(ListOf(x, "positions"))
                         * Len(ListOf(x, "backgrounds"))
            IN IF x.s.animation_data = NoAnimation
               THEN Did(Iterated(x.s, 0, 0, NoError, FALSE), <<>>, <<>>, {})
               ELSE IF total > 0 /\ s.frame_start < s.frame_end
               \* Animation.add_studio_keyframes passes frame= and focus= to
               \* camera.add_intermediate_keyframe before the first render
               THEN Did(Iterated(s, 0, 0, "TypeError", FALSE),
                        Progress(total, 0), <<>>, {})
               ELSE video_loop(s, total, TRUE,
                               IF total = 0 THEN <<>>
                               ELSE LET name == lower(ListOf(x, "cameras")[1])
                                           \o initial(ListOf(x, "positions")[1]) \o "_"
                                           \o ListOf(x, "backgrounds")[1] \o "_animation"
                                    IN <<name, name \o "_reversed">>,
                               x.returncode)

\* Job._setup: the snapshot and the heap once _override_studio has run; the
\* lists of the job executed before are no longer referred to
setup(type, s, h) ==
    override_studio(type,
        [s |-> set_frames(copy(s), TRUE),
         h |-> [a \in DOMAIN h \ {"job.cameras", "job.backgrounds", "job.positions"}
                   |-> h[a]]])

\* a faulty variant: the context loads nothing into the snapshot
in_context_default(type, x, params) == x

\* entering self.context of a UserAnimationJob: user_animation_override calls
\* studio.set_frames() on the snapshot, nullcontext does nothing

in_context(type, x, params) ==
    IF type \in UserAnimationJobs /\ params.FRAMES # <<>>
    THEN [x EXCEPT !.s = set_frames(x.s, FALSE)]
    ELSE x

\* Job.execute / UserAnimationJob.execute from report() on
report_and_iterate(type, x, params, fails) ==
    IF report(type, x, params) = 1 THEN Did(NotIterated(x.s), <<>>, <<>>, {})
    ELSE iterate(type, x, params,
                 IF type \in UserAnimationJobs THEN parse_frames(x.s, params)
                 ELSE {},
                 fails)

\* the background passed to Background.use when the first render of
\* iterate() is made (NoActor: iterate() has not called Background.use).
\* Static and Animation call it for each background inside the loop over
\* the positions, CameraTransition, FlipTransition, Highlights and Stackup
\* once with backgrounds[0], Masks not at all.
Background_use(type, x) ==
    CASE type = "Masks" -> NoActor
      [] type \in {"Static", "Animation"} ->
            IF ListOf(x, "positions") # <<>> /\ ListOf(x, "backgrounds") # <<>>
            THEN ListOf(x, "backgrounds")[1] ELSE NoActor
      [] OTHER ->
            IF ListOf(x, "backgrounds") # <<>>
            THEN ListOf(x, "backgrounds")[1] ELSE NoActor

NoRun ==
    [type |-> "none", status |-> "none", error |-> NoError, skip |-> 0,
     iterated |-> FALSE, renders |-> 0, encoder |-> 0, params |-> <<>>,
     frames |-> {}, has_animation_data |-> FALSE, progress |-> <<>>,
     outputs |-> <<>>, masks |-> {}, subtypes |-> {}, range |-> <<0, 0>>,
     injected |-> FALSE, returncode |-> 0, cleared_frames |-> FALSE,
     fails |-> 0, reset |-> FALSE, background |-> NoActor]

JobsAtRest ==
    /\ studio = [cameras |-> "studio.cameras"]
    /\ snap = [cameras |-> "studio.cameras"]
    /\ heap = [a \in {"studio.cameras"} |-> <<>>]
    /\ run = NoRun

(***************************************************************************)
(* SpecRender: one RendererWrapper whose methods are called in any order.  *)
(***************************************************************************)
Cameras == {"FRONT"}

FileNames == {"a", "b"}

FormatLists == {<<"PNG">>, <<"PNG", "JPEG">>}

\* first frames of an active scene range: the default, and one whose range
\* crosses from four digits to five
FrameStarts == {1, 9999}

\* One entry of hist: the call, the cache and cache file it found, the
\* underlying renders it performed, the cache, the cache file and the saved
\* files it left, and (render_animation) the frames whose render was loadable.
Call(op, file_name, r, r1, loaded, raised) ==
    [op |-> op, file_name |-> file_name, had_cache |-> r.cache,
     file_before |-> r.cache_file, rendered |-> r1.nrenders - r.nrenders,
     cache |-> r1.cache, cache_file |-> r1.cache_file, wrote |-> r1.wrote,
     loaded |-> loaded, raised |-> raised]

Record(call) ==
    hist' = IF Len(hist) < MaxHist THEN Append(hist, call)
            ELSE Append(Tail(hist), call)

\* the wrapper at the start of a call: nothing written by it yet
Fresh(r) == [r EXCEPT !.wrote = EmptyMap]

InitRender ==
    /\ cfg \in [KEEP_PNGS : BOOLEAN, IMAGE_FORMAT : FormatLists,
                DEPTH_OF_FIELD : {FALSE}]
    /\ \E s \in FrameStarts, n \in 0..MaxSpan :
          scene = [frame_start |-> s, frame_end |-> s + n, frame_current |-> s]
    /\ rw = NewRendererWrapper
    /\ hist = <<>>
    /\ OverrideAtRest
    /\ JobsAtRest
    /\ DiskAtRest
    /\ BuildAtRest

\* a call that has to render is possible while the model's budget lasts
CanRender(r, n) == r.nrenders + n <= MaxRenders

Render(camera, file_name) ==
    /\ cache_missing(rw) => CanRender(rw, 1)
    /\ \E loadable \in BOOLEAN :
          /\ rw' = render(Fresh(rw), camera, scene.frame_current, file_name,
                          NoFormat, loadable)
          /\ Record(Call("render", file_name, rw, rw', {}, "none"))
    /\ UNCHANGED <<cfg, scene>>
    /\ UNCHANGED overrideVars
    /\ UNCHANGED jobVars
    /\ UNCHANGED diskVars
    /\ UNCHANGED buildVars

Thumbnail(camera, file_name) ==
    /\ cache_missing(rw) => CanRender(rw, 1)
    /\ \E loadable \in BOOLEAN :
          /\ rw' = thumbnail(Fresh(rw), camera, scene.frame_current, file_name,
                             NoFormat, loadable)
          /\ Record(Call("thumbnail", file_name, rw, rw', {}, "none"))
    /\ UNCHANGED <<cfg, scene>>
    /\ UNCHANGED overrideVars
    /\ UNCHANGED jobVars
    /\ UNCHANGED diskVars
    /\ UNCHANGED buildVars

ClearCache ==
    /\ IF clear_cache_raises(rw)
       THEN /\ rw' = Fresh(rw)
            /\ Record(Call("clear_cache", "", rw, rw', {}, "TypeError"))
       ELSE /\ rw' = clear_cache(Fresh(rw))
            /\ Record(Call("clear_cache", "", rw, rw', {}, "none"))
    /\ UNCHANGED <<cfg, scene>>
    /\ UNCHANGED overrideVars
    /\ UNCHANGED jobVars
    /\ UNCHANGED diskVars
    /\ UNCHANGED buildVars

RenderAnimation(camera, file_name) ==
    /\ CanRender(rw, scene.frame_end - scene.frame_start + 1)
    /\ \E loadable \in [scene.frame_start..scene.frame_end -> BOOLEAN] :
          /\ rw' = render_animation(Fresh(rw), camera, scene.frame_start,
                                    scene.frame_end, file_name, loadable)
          /\ Record(Call("render_animation", file_name, rw, rw',
                         {f \in DOMAIN loadable : loadable[f]}, "none"))
    /\ scene' = [scene EXCEPT !.frame_current = scene.frame_end]
    /\ UNCHANGED cfg
    /\ UNCHANGED overrideVars
    /\ UNCHANGED jobVars
    /\ UNCHANGED diskVars
    /\ UNCHANGED buildVars

NextRender ==
    \/ \E c \in Cameras, n \in FileNames : Render(c, n)
    \/ \E c \in Cameras, n \in FileNames : Thumbnail(c, n)
    \/ ClearCache
    \/ \E c \in Cameras, n \in FileNames : RenderAnimation(c, n)

vars == <<cfg, scene, rw, hist, objs, view, ov, job, studio, snap, heap, run,
          disk, built>>

SpecRender == InitRender /\ [][NextRender]_vars

(***************************************************************************)
(* Claims about the RendererWrapper (checked under SpecRender).            *)
(***************************************************************************)
\* the files render() saves for file_name, each holding img
SavedAs(file_name, formats, img) ==
    [p \in {render_path \o file_name \o file_extension(formats[i]) :
                i \in DOMAIN formats} |-> img]

\* the files thumbnail() saves for file_name, each holding img scaled down
ThumbnailsAs(file_name, formats, img) ==
    [p \in {render_path \o file_name \o "_thumbnail" \o file_extension(formats[i]) :
                i \in DOMAIN formats} |-> [serial |-> img.serial, size |-> "thumb"]]

\* no clear_cache runs between calls i and j of hist, alone or inside
\* render_animation
NoClearBetween(i, j) ==
    \A k \in (i + 1)..(j - 1) : hist[k].op \notin {"clear_cache", "render_animation"}

\* C5: once a render() call has succeeded, a later render() call with any file
\* name and no clear_cache in between performs no underlying render and only
\* saves the cached image once per configured format; the one underlying
\* render is the one of the call that found the cache empty.
C5_RenderReusesCache ==
    \A i, j \in DOMAIN hist :
        (/\ i < j
         /\ hist[i].op = "render" /\ hist[i].cache # NoImage
         /\ hist[j].op = "render"
         /\ NoClearBetween(i, j))
        => /\ hist[i].rendered = (IF hist[i].had_cache = NoImage THEN 1 ELSE 0)
           /\ hist[j].rendered = 0
           /\ hist[j].cache = hist[i].cache
           /\ hist[j].wrote = SavedAs(hist[j].file_name, cfg.IMAGE_FORMAT, hist[i].cache)

C5_Witness ==
    /\ Len(hist) = 2
    /\ hist[1].op = "render" /\ hist[1].rendered = 1 /\ hist[1].cache # NoImage
    /\ hist[2].op = "render" /\ hist[2].file_name # hist[1].file_name
    /\ hist[2].rendered = 0
    /\ Len(cfg.IMAGE_FORMAT) = 2
    /\ rw.nrenders = 1

\* C6: after clear_cache the cache is empty and the next render() or
\* thumbnail() call performs a new underlying render; clear_cache removes the
\* cache file exactly when KEEP_PNGS is off and leaves it when it is on.
C6_ClearCacheForcesRender ==
    \A i \in DOMAIN hist :
        hist[i].op = "clear_cache"
        => /\ hist[i].cache = NoImage
           /\ hist[i].rendered = 0
           /\ hist[i].cache_file = (IF cfg.KEEP_PNGS THEN hist[i].file_before ELSE NoImage)
           /\ (i + 1 \in DOMAIN hist /\ hist[i + 1].op \in {"render", "thumbnail"})
              => hist[i + 1].rendered = 1

C6_Witness ==
    /\ Len(hist) = 2
    /\ hist[1].op = "clear_cache" /\ hist[1].had_cache # NoImage
    /\ hist[1].file_before # NoImage /\ hist[1].cache_file = NoImage
    /\ ~cfg.KEEP_PNGS
    /\ hist[2].op = "thumbnail" /\ hist[2].rendered = 1

\* C7 (the claim as stated): thumbnail() called with no cached frame performs
\* one underlying render, keeps its image in the cache and saves the scaled
\* thumbnail once per configured format (when the render left a loadable
\* file); a render() that follows without clear_cache does not render again.
C7_ThumbnailFillsCache ==
    \A i \in DOMAIN hist :
        (hist[i].op = "thumbnail" /\ hist[i].had_cache = NoImage)
        => /\ hist[i].rendered = 1
           /\ hist[i].cache_file # NoImage
              => /\ hist[i].cache = hist[i].cache_file
                 /\ hist[i].wrote =
                        ThumbnailsAs(hist[i].file_name, cfg.IMAGE_FORMAT, hist[i].cache_file)
                 /\ (i + 1 \in DOMAIN hist /\ hist[i + 1].op = "render")
                    => hist[i + 1].rendered = 0

\* C8: thumbnail() called while a frame is cached performs no render, leaves
\* the cached image as it was and saves a scaled copy per format; so when
\* render(name), thumbnail(), render(name) follow each other, the second
\* render() saves the same full-size image as the first and renders nothing.
C8_CallStep == hist' # hist

C8_ThumbnailKeepsCache ==
    [][C8_CallStep =>
        LET e == hist'[Len(hist')] IN
        /\ (e.op = "thumbnail" /\ e.had_cache # NoImage)
           => /\ e.cache = e.had_cache
              /\ e.cache.size = "full"
              /\ e.rendered = 0
              /\ e.wrote = ThumbnailsAs(e.file_name, cfg.IMAGE_FORMAT, e.had_cache)
        /\ (/\ Len(hist) = MaxHist
            /\ hist[MaxHist - 1].op = "render" /\ hist[MaxHist - 1].cache # NoImage
            /\ hist[MaxHist].op = "thumbnail"
            /\ e.op = "render" /\ e.file_name = hist[MaxHist - 1].file_name)
           => /\ e.wrote = hist[MaxHist - 1].wrote
              /\ \A p \in DOMAIN e.wrote : e.wrote[p].size = "full"
              /\ hist[MaxHist].rendered = 0
              /\ e.rendered = 0
    ]_vars

C8_Witness ==
    /\ Len(hist) = 2
    /\ hist[1].op = "thumbnail" /\ hist[1].had_cache # NoImage
    /\ hist[1].wrote # EmptyMap
    /\ hist[2].op = "render" /\ hist[2].rendered = 0
    /\ hist[2].wrote = SavedAs(hist[2].file_name, cfg.IMAGE_FORMAT, hist[1].had_cache)
    /\ rw.nrenders = 1

\* the decimal numeral of n, and the numeral padded with zeros to four digits
RECURSIVE Decimal(_)
Decimal(n) == IF n < 10 THEN ToString(n) ELSE Decimal(n \div 10) \o ToString(n % 10)

RECURSIVE ZeroPadded(_, _)
ZeroPadded(str, width) ==
    IF Len(str) >= width THEN str ELSE ZeroPadded("0" \o str, width)

FrameFile(file_name, f) ==
    render_path \o file_name \o "_" \o ZeroPadded(Decimal(f), 4) \o ".png"

ActiveFrames == scene.frame_start..scene.frame_end

\* the serial number of the underlying render of frame f in a render_animation
\* call that performed one render per frame and left rw
SerialOf(f) == rw.nrenders - (scene.frame_end - f)

\* What render_animation does for every frame of the active range, in
\* ascending order: one underlying render of that frame; the image of a frame
\* whose render left a loadable file is saved under that frame's name, no other
\* file is saved, distinct frames have distinct names, and the cache is empty.
AnimationPerFrame(e) ==
    /\ e.rendered = Cardinality(ActiveFrames)
    /\ \A f \in ActiveFrames :
          /\ rw.log[SerialOf(f)] = [camera |-> "FRONT", frame |-> f]
          /\ f \in e.loaded => FrameFile(e.file_name, f) \in DOMAIN e.wrote
    /\ DOMAIN e.wrote \subseteq {FrameFile(e.file_name, f) : f \in ActiveFrames}
    /\ \A f \in ActiveFrames :
          FrameFile(e.file_name, f) \in DOMAIN e.wrote
          => e.wrote[FrameFile(e.file_name, f)] = FullImage(SerialOf(f))
    /\ \A f, g \in ActiveFrames :
          f # g => FrameFile(e.file_name, f) # FrameFile(e.file_name, g)
    /\ e.cache = NoImage

\* C9 (the claim as stated): every render_animation call renders each frame of
\* the active range exactly once, in ascending order, saves it under that
\* frame's name, and no frame's image is saved under another frame's name.
C9_AnimationAlways ==
    (hist # <<>> /\ hist[Len(hist)].op = "render_animation")
    => /\ AnimationPerFrame(hist[Len(hist)])
       /\ \A f \in ActiveFrames :
             FrameFile(hist[Len(hist)].file_name, f) \in DOMAIN hist[Len(hist)].wrote

\* C9 (amended): the same for a render_animation call that finds the cache
\* empty; a call that finds a cached image performs no render for the first
\* frame and saves that cached image under the first frame's name.
C9_AnimationFromEmptyCache ==
    (hist # <<>> /\ hist[Len(hist)].op = "render_animation")
    => LET e == hist[Len(hist)] IN
       IF e.had_cache = NoImage THEN AnimationPerFrame(e)
       ELSE /\ e.rendered = Cardinality(ActiveFrames) - 1
            /\ e.wrote[FrameFile(e.file_name, scene.frame_start)] = e.had_cache
            /\ e.cache = NoImage

C9_Witness ==
    /\ hist # <<>> /\ hist[Len(hist)].op = "render_animation"
    /\ hist[Len(hist)].had_cache = NoImage
    /\ hist[Len(hist)].rendered = 2
    /\ Cardinality(DOMAIN hist[Len(hist)].wrote) = 2
    /\ scene.frame_end = 10000

(***************************************************************************)
(* SpecOverride: iterate() of a job whose loop runs one with-block over a  *)
(* scoped override per combination (Masks.render_side, the dof_override    *)
(* of the Masks camera loop, the hide_override blocks of Stackup).         *)
(***************************************************************************)
\* with-blocks one iterate() enters
MaxCombos == 2

ComponentLists == {<<"o1">>, <<"o1", "o2">>, <<"o1", NoObject>>}

ComponentKinds == {"holdout_override", "hide_override", "shadow_override"}

FunctionKinds ==
    {"global_material_override", "compositing_override", "cycles_override",
     "user_animation_override"}

Kinds == ComponentKinds \cup FunctionKinds \cup {"dof_override"}

\* the calls of an override the model makes
ArgsOf(kind) ==
    IF kind \in {"holdout_override", "hide_override"}
    THEN [components : ComponentLists, flag : BOOLEAN, fails : {NoError}]
    ELSE IF kind = "shadow_override"
    THEN [components : ComponentLists, flag : {FALSE}, fails : {NoError}]
    ELSE IF kind \in FunctionKinds
    THEN [components : {<<>>}, flag : {FALSE},
          fails : {NoError, "AttributeError", "RuntimeError"}]
    ELSE [components : {<<>>}, flag : {FALSE}, fails : {NoError}]

\* objects as a loaded .blend file may hold them
ObjectPresets ==
    {DefaultFlags,
     [DefaultFlags EXCEPT !.hide_render = TRUE, !.hide_viewport = TRUE],
     [DefaultFlags EXCEPT !.is_holdout = TRUE],
     [DefaultFlags EXCEPT !.visible_shadow = FALSE]}

LinkedPresets == {DefaultFlags, [DefaultFlags EXCEPT !.library = TRUE]}

ViewPresets ==
    {DefaultView,
     [DefaultView EXCEPT !.material_override = "user_material"],
     [DefaultView EXCEPT !.compositing = "user"],
     [DefaultView EXCEPT !.cycles = "user"],
     [DefaultView EXCEPT !.use_dof = "False"],
     [DefaultView EXCEPT !.use_dof = "absent"]}

World == [objs |-> objs, view |-> view]

InitOverride ==
    /\ cfg \in [KEEP_PNGS : {FALSE}, IMAGE_FORMAT : {<<"PNG">>},
                DEPTH_OF_FIELD : BOOLEAN]
    /\ RenderAtRest
    /\ JobsAtRest
    /\ DiskAtRest
    /\ BuildAtRest
    /\ \E p1 \in ObjectPresets, p2 \in LinkedPresets :
          objs = [c \in Objs |-> IF c = "o1" THEN p1 ELSE p2]
    /\ view \in ViewPresets
    /\ ov = NoOverride
    /\ job = NewJob

\* `with override(...):` is reached: the code of the override up to its yield
EnterWith(kind, a) ==
    /\ job.status = "running" /\ job.at = "loop"
    /\ job.combination < MaxCombos
    /\ LET e == with_enter(kind, World, a) IN
       /\ objs' = e.w.objs
       /\ view' = e.w.view
       /\ ov' = [kind |-> kind, args |-> a, pre |-> World,
                 phase |-> IF e.yielded THEN "body" ELSE "left",
                 acquire |-> acquire(kind, World, a).raised,
                 body |-> "not run", error |-> e.error]
       /\ job' = IF e.yielded THEN [job EXCEPT !.at = "body"]
                 ELSE [job EXCEPT !.status = "raised", !.error = e.error]
    /\ UNCHANGED renderVars
    /\ UNCHANGED jobVars
    /\ UNCHANGED diskVars
    /\ UNCHANGED buildVars

\* the body of the with-block ends with outcome and the block is left; an
\* error that leaves the block leaves iterate() and execute()
LeaveWith(outcome) ==
    /\ job.status = "running" /\ job.at = "body"
    /\ LET x == with_exit(ov.kind, World, ov.args, outcome) IN
       /\ objs' = x.w.objs
       /\ view' = x.w.view
       /\ ov' = [ov EXCEPT !.phase = "left", !.body = outcome, !.error = x.error]
       /\ job' = IF x.error = NoError
                 THEN [job EXCEPT !.at = "loop", !.combination = @ + 1,
                                  !.done = @ + (IF outcome = NoError THEN 1 ELSE 0)]
                 ELSE [job EXCEPT !.at = "loop", !.status = "raised",
                                  !.error = x.error]
    /\ UNCHANGED renderVars
    /\ UNCHANGED jobVars
    /\ UNCHANGED diskVars
    /\ UNCHANGED buildVars

\* the loop of iterate() is over: execute() returns to its caller
ReturnFromIterate ==
    /\ job.status = "running" /\ job.at = "loop"
    /\ job' = [job EXCEPT !.status = "returned"]
    /\ UNCHANGED <<objs, view, ov>>
    /\ UNCHANGED renderVars
    /\ UNCHANGED jobVars
    /\ UNCHANGED diskVars
    /\ UNCHANGED buildVars

NextOverride ==
    \/ \E kind \in Kinds : \E a \in ArgsOf(kind) : EnterWith(kind, a)
    \/ \E outcome \in {NoError} \cup Errors : LeaveWith(outcome)
    \/ ReturnFromIterate

SpecOverride == InitOverride /\ [][NextOverride]_vars

(***************************************************************************)
(* Claims about the scoped overrides (checked under SpecOverride).         *)
(***************************************************************************)
\* a with-block whose body ran has been left
BlockLeft == ov.phase = "left" /\ ov.body # "not run"

\* C1 (the claim as stated): once the block of hide_override,
\* holdout_override, global_material_override, shadow_override,
\* compositing_override or cycles_override is left, whether its body returned
\* or raised, the flags of every object and the view-layer and scene settings
\* are what they were before the block was entered.
C1_RestoresPreEntryState ==
    (BlockLeft /\ ov.kind \in {"hide_override", "holdout_override",
                               "global_material_override", "shadow_override",
                               "compositing_override", "cycles_override"})
    => (objs = ov.pre.objs /\ view = ov.pre.view)

\* what the finally block of the override entered last leaves behind
RestorationRan ==
    CASE ov.kind = "hide_override" ->
            \A c \in Range(ov.args.components) :
                ~objs[c].hide_render /\ ~objs[c].hide_viewport
      [] ov.kind = "holdout_override" ->
            /\ \A c \in Objs : ~objs[c].library => ~objs[c].hide_render
            /\ \A c \in Range(ov.args.components) :
                  ~objs[c].library => ~objs[c].is_holdout
      [] ov.kind = "shadow_override" ->
            \A c \in Range(ov.args.components) : objs[c].visible_shadow
      [] ov.kind = "global_material_override" -> view.material_override = NoMaterial
      [] ov.kind = "compositing_override" -> view.compositing = "default"
      [] ov.kind = "cycles_override" -> view.cycles = "default"
      [] ov.kind = "dof_override" ->
            view.use_dof = (IF cfg.DEPTH_OF_FIELD THEN "True" ELSE "False")
      [] ov.kind = "user_animation_override" -> view.animation = "cleared"

\* the errors of a body that do not leave the block of an override
PassedOver(kind) ==
    IF kind \in {"global_material_override", "compositing_override",
                 "cycles_override"}
    THEN {"AttributeError", "RuntimeError"}
    ELSE IF kind = "user_animation_override" THEN {}
    ELSE {"AttributeError"}

C3_FailedAcquisitionIsNoOp ==
    ov.acquire = "AttributeError"
    => (job.status # "raised" /\ (ov.phase = "left" => ov.body # "not run"))

(***************************************************************************)
(* SpecJob: execute(studio) is called for one job after another, each job  *)
(* of any type and with any parameters, against the one shared Studio.     *)
(***************************************************************************)
\* Camera.objects, and the lists of enabled actors a configuration yields
CameraObjects == <<"TOP", "FRONT", "LEFT">>

CameraLists == {<<>>, <<"TOP">>, <<"TOP", "FRONT">>}

BackgroundLists ==
    {[objects |-> <<"paper">>, enabled |-> <<>>],
     [objects |-> <<"paper">>, enabled |-> <<"paper">>],
     [objects |-> <<"transparent", "paper">>, enabled |-> <<>>],
     [objects |-> <<"transparent", "paper">>, enabled |-> <<"transparent", "paper">>]}

PositionLists ==
    {<<>>, <<"TOP">>, <<"TOP", "BOTTOM">>, <<"TOP", "BOTTOM", "REAR">>}

\* the components of the model and the 'PCB_Side' property of each
ComponentObjects == <<"U1", "U3", "R1", "U2">>

PCB_Side == [U1 |-> "T", U3 |-> "T", R1 |-> "T", U2 |-> "B"]

\* Studio._get_top_bottom_components: by 'PCB_Side' for a PCB, else every
\* object in both lists
get_top_bottom_components(is_pcb, objects) ==
    LET IsTop(c) == PCB_Side[c] = "T"
        IsBottom(c) == PCB_Side[c] = "B"
    IN IF is_pcb
       THEN [top |-> SelectSeq(objects, IsTop), bottom |-> SelectSeq(objects, IsBottom)]
       ELSE [top |-> objects, bottom |-> objects]

FpsValues == {2}

\* the passes of a job's loop of which one may fail to leave a loadable
\* render (0: none fails)
MaxFails == 2

AnimationRanges == {NoAnimation, [x |-> 3, y |-> 5]}

\* the model: a PCB with layer objects, a PCB without, something else
ModelShapes ==
    {[is_pcb |-> TRUE, layers |-> MaxLayers], [is_pcb |-> TRUE, layers |-> 0],
     [is_pcb |-> FALSE, layers |-> 0]}

\* the FRAMES parameter: keywords and explicit frame numbers
FrameParams ==
    {<<>>, <<[key |-> "start", frame |-> 0], [key |-> "end", frame |-> 0]>>,
     <<[key |-> "end", frame |-> 0], [key |-> "4", frame |-> 4]>>,
     <<[key |-> "end", frame |-> 0], [key |-> "9", frame |-> 9]>>}

NoParams == [FRAMES |-> <<>>, FULL |-> FALSE, COVERED |-> FALSE]

ParamsOf(type) ==
    IF type = "Masks"
    THEN [FRAMES : FrameParams, FULL : BOOLEAN, COVERED : BOOLEAN]
    ELSE [FRAMES : FrameParams, FULL : {FALSE}, COVERED : {FALSE}]

InitJob ==
    /\ cfg \in [KEEP_PNGS : {FALSE}, IMAGE_FORMAT : {<<"PNG">>},
                DEPTH_OF_FIELD : {FALSE}, FPS : FpsValues]
    /\ rw = NewRendererWrapper
    /\ hist = <<>>
    /\ OverrideAtRest
    /\ DiskAtRest
    /\ BuildAtRest
    /\ \E cameras \in CameraLists, backgrounds \in BackgroundLists,
          positions \in PositionLists :
          heap = [a \in {"Camera.objects", "Background.objects", "studio.cameras",
                         "studio.backgrounds", "studio.positions"} |->
                     CASE a = "Camera.objects" -> CameraObjects
                       [] a = "Background.objects" -> backgrounds.objects
                       [] a = "studio.cameras" -> cameras
                       [] a = "studio.backgrounds" -> backgrounds.enabled
                       [] a = "studio.positions" -> positions]
    /\ \E shape \in ModelShapes, is_ortho \in BOOLEAN,
          animation_data \in AnimationRanges :
          studio = [cameras |-> "studio.cameras",
                    backgrounds |-> "studio.backgrounds",
                    positions |-> "studio.positions",
                    frame_start |-> 1, frame_end |-> cfg.FPS,
                    is_ortho |-> is_ortho, is_pcb |-> shape.is_pcb,
                    layers |-> shape.layers, animation_data |-> animation_data,
                    top_components |->
                        get_top_bottom_components(shape.is_pcb, ComponentObjects).top,
                    bottom_components |->
                        get_top_bottom_components(shape.is_pcb, ComponentObjects).bottom]
    /\ scene = scene_of(studio)
    /\ snap = studio
    /\ run = NoRun

\* what the call leaves in run, and the animation data it leaves in the scene
Finish(type, x, it, params, sc, left, injected) ==
    /\ snap' = it.s
    /\ heap' = x.h
    /\ run' = [type |-> type,
               status |-> IF left.error = NoError THEN "returned" ELSE "raised",
               error |-> left.error, skip |-> report(type, x, params),
               iterated |-> it.invoked, renders |-> it.renders,
               encoder |-> it.encoder, params |-> params.FRAMES,
               frames |-> IF type \in UserAnimationJobs
                          THEN parse_frames(x.s, params) ELSE {},
               has_animation_data |-> type \in UserAnimationJobs
                                      /\ has_animation_data(params),
               progress |-> it.progress, outputs |-> it.outputs,
               masks |-> it.masks, subtypes |-> subtypes(params),
               range |-> <<sc.frame_start, sc.frame_end>>,
               injected |-> injected,
               returncode |-> IF "returncode" \in DOMAIN x THEN x.returncode ELSE 0,
               cleared_frames |-> "cleared_frames" \in DOMAIN it
                                  /\ it.cleared_frames,
               fails |-> IF "fails" \in DOMAIN x /\ x.fails \in DOMAIN it.outputs
                         THEN x.fails ELSE 0,
               \* _setup of a job other than a UserAnimationJob found the
               \* range of a job that returned in the scene and replaced it
               reset |-> /\ type \notin UserAnimationJobs
                         /\ run.status = "returned"
                         /\ <<scene.frame_start, scene.frame_end>>
                                # <<sc.frame_start, sc.frame_end>>,
               background |-> IF it.renders > 0 THEN Background_use(type, x)
                              ELSE NoActor]
    /\ view' = left.w.view
    /\ UNCHANGED <<cfg, rw, hist, objs, ov, job, studio>>
    /\ UNCHANGED diskVars
    /\ UNCHANGED buildVars

\* the scene once iterate() has ended: the keyframes it left are in place
after_iterate(w, it) ==
    IF it.keyframes THEN [w EXCEPT !.view.animation = "keyframes"] ELSE w

\* the last statement of execute(), studio.clear_animation_data(), which an
\* error raised before it passes by
clear_at_end(w, error) ==
    [w |-> IF error = NoError THEN [w EXCEPT !.view.animation = "cleared"] ELSE w,
     error |-> error]

\* Job.execute(studio)
ExecuteJob(type) ==
    \E node_groups \in IF type = "Stackup" THEN NodeGroups
                       ELSE {[Color_group |-> TRUE]} :
    \E returncode \in IF type \in VideoJobs THEN ReturnCodes ELSE {0} :
    \E x \in {setup(type, studio, heap)
              @@ [node_groups |-> node_groups, returncode |-> returncode]} :
    \E it \in {report_and_iterate(type, x, NoParams, 0)} :
    LET left == clear_at_end(after_iterate([objs |-> objs, view |-> view], it),
                             it.raised)
    IN /\ Finish(type, x, it, NoParams, scene_of(x.s), left, FALSE)
       /\ scene' = IF it.renders > 0
                   THEN [scene_of(it.s) EXCEPT !.frame_current = it.s.frame_end]
                   ELSE scene_of(it.s)

\* the arguments of user_animation_override(self.studio)
NoArgs == [components |-> <<>>, flag |-> FALSE, fails |-> NoError]

\* UserAnimationJob.execute(studio): self.context is user_animation_override
\* for a non-empty FRAMES and nullcontext() else
ExecuteUserAnimationJob(type, params, fails) ==
    \E x \in {in_context(type, setup(type, studio, heap), params)
              @@ [fails |-> fails]} :
    \E it \in {report_and_iterate(type, x, params, fails)} :
    LET frames == parse_frames(x.s, params)
        sc == set_frame_range(scene_of(x.s), Min(frames), Max(frames))
        w0 == [objs |-> objs, view |-> view]
        entered == IF params.FRAMES # <<>>
                   THEN with_enter("user_animation_override", w0, NoArgs).w
                   ELSE w0
        body == after_iterate(entered, it)
        exited == IF params.FRAMES # <<>>
                  THEN with_exit("user_animation_override", body, NoArgs, it.raised)
                  ELSE [w |-> body, error |-> it.raised]
        left == clear_at_end(exited.w, exited.error)
    IN /\ Finish(type, x, it, params, sc, left,
                 /\ params.FRAMES # <<>>
                 /\ x.s.animation_data # NoAnimation
                 /\ entered.view.animation = "user")
       /\ \E f \in IF it.renders > 0 THEN frames ELSE {x.s.frame_start} :
             scene' = [sc EXCEPT !.frame_current = f]

NextJob ==
    \/ \E type \in JobTypes \ UserAnimationJobs : ExecuteJob(type)
    \/ \E type \in UserAnimationJobs : \E params \in ParamsOf(type) :
          \E fails \in IF type = "Static" THEN 0..MaxFails ELSE {0} :
             ExecuteUserAnimationJob(type, params, fails)

SpecJob == InitJob /\ [][NextJob]_vars

(***************************************************************************)
(* SpecFrames: FFmpegWrapper.clear_frames() on a render directory.  A file *)
(* name is the sequence of its characters.                                 *)
(***************************************************************************)
Digits == {"0", "1", "2", "3", "4", "5", "6", "7", "8", "9"}

\* the names found in the render directory: a frame a_0001.p, a frame
\* number of 5 digits, the thumbnail of a frame, a still image, a frame
\* number of 3 digits, and a name without extension
listdir ==
    {<<"a", "_", "0", "0", "0", "1", ".", "p">>,
     <<"a", "_", "0", "0", "0", "1", "2", ".", "p">>,
     <<"a", "_", "0", "0", "0", "1", "_", "t", ".", "p">>,
     <<"a", ".", "p">>,
     <<"a", "_", "0", "0", "1", ".", "p">>,
     <<"a", "_", "0", "0", "0", "1", "x", "p">>,
     <<"a", "_", "0", "0", "0", "1">>}

\* re.match(r"^.+_\d{4}..+$", file): one or more characters, an underscore,
\* four digits, any one character, one or more characters up to the end
match(file) ==
    \E i \in 1..Len(file) :
        /\ Len(file) >= i + 7
        /\ file[i + 1] = "_"
        /\ \A d \in (i + 2)..(i + 5) : file[d] \in Digits

\* FFmpegWrapper.clear_frames: what listdir(self.render_path) holds after it
clear_frames(files) ==
    IF cfg.KEEP_PNGS THEN files ELSE {file \in files : ~match(file)}

\* the files a Static job leaves in the render directory for one frame:
\* renderer.render saves <file_name><ext> and renderer.thumbnail
\* <file_name>_thumbnail<ext> ("_t" here), where file_name ends with the
\* suffix of get_frame_suffix
still_files(name, suffix, ext) ==
    {name \o suffix \o ext, name \o suffix \o <<"_", "t">> \o ext}

\* what an earlier Static job wrote: nothing, the still of a job without
\* FRAMES, the stills of frame 1 of a job with FRAMES: [1]
StaticOutputs ==
    {{},
     still_files(<<"a">>, <<>>, <<".", "p">>),
     still_files(<<"a">>, <<"_", "0", "0", "0", "1">>, <<".", "p">>)}

InitFrames ==
    /\ cfg \in [KEEP_PNGS : BOOLEAN, IMAGE_FORMAT : {<<"PNG">>},
                DEPTH_OF_FIELD : {FALSE}]
    /\ RenderAtRest
    /\ OverrideAtRest
    /\ JobsAtRest
    /\ BuildAtRest
    /\ \E files \in SUBSET listdir, stills \in StaticOutputs :
          disk = [before |-> files \cup stills, files |-> files \cup stills,
                  called |-> FALSE, stills |-> stills]

ClearFrames ==
    /\ disk' = [before |-> disk.files, files |-> clear_frames(disk.files),
                called |-> TRUE, stills |-> disk.stills]
    /\ UNCHANGED renderVars
    /\ UNCHANGED overrideVars
    /\ UNCHANGED <<studio, snap, heap, run>>
    /\ UNCHANGED buildVars

NextFrames == ClearFrames

SpecFrames == InitFrames /\ [][NextFrames]_vars

(***************************************************************************)
(* SpecHighlights: the material overrides of Highlights.iterate.  An       *)
(* object's material slots are those of its data, which several objects   *)
(* may share: heap maps the name of a mesh to the materials of its slots,  *)
(* objs an object to its data and its library flag, ov is the stack of the *)
(* material_override contexts that are open.                               *)
(***************************************************************************)
\* list(bpy.data.objects): two connectors, the board, the empty that is the
\* top parent, and an object linked from a library
BlendObjects == <<"J1", "J2", "pcb", "_parent", "lib">>

\* the components get_component_lists() gives as highlighted
Highlighted == {"J1", "J2"}

\* the materials a mesh of the loaded file may have in its slots
MaterialLists == {<<>>, <<"copper">>, <<"copper", "mask">>}

\* add_material("white", WHITE_RGB), add_material("highlight", HIGHLIGHT_RGB)
white_mat == "white"

highlight_mat == "highlight"

\* component.material_slots: the slots of the data of the object; an object
\* whose data has no `materials` (an empty) has none
material_slots(d, h, component) ==
    IF d[component].data = NoActor THEN <<>> ELSE h[d[component].data]

\* material_override, the try block: backup[component] for each component
material_backup(d, h, components) ==
    [i \in DOMAIN components |-> material_slots(d, h, components[i])]

\* material_override, the try block from `for component in backup.keys()`
\* on, from component i of the list
RECURSIVE material_override(_, _, _, _, _)
material_override(base_material, components, i, d, h) ==
    IF i > Len(components) THEN h
    ELSE LET data == d[components[i]].data
             done == IF d[components[i]].library \/ data = NoActor THEN h
                     ELSE IF Len(h[data]) = 0
                     THEN [h EXCEPT ![data] = <<base_material>>]
                     ELSE [h EXCEPT ![data] = [k \in DOMAIN @ |-> base_material]]
         IN material_override(base_material, components, i + 1, d, done)

\* material_override, the finally block, from component i of the backup on
RECURSIVE material_revert(_, _, _, _, _)
material_revert(backup, components, i, d, h) ==
    IF i > Len(components) THEN h
    ELSE LET data == d[components[i]].data
             materials == backup[i]
             done == IF d[components[i]].library \/ data = NoActor THEN h
                     ELSE IF Len(materials) = 0
                     THEN [h EXCEPT ![data] = <<>>]
                     ELSE [h EXCEPT ![data] =
                              [k \in DOMAIN @ |->
                                  IF k <= Len(materials) THEN materials[k]
                                  ELSE @[k]]]
         IN material_revert(backup, components, i + 1, d, done)

InitHighlights ==
    /\ cfg \in [KEEP_PNGS : {FALSE}, IMAGE_FORMAT : {<<"PNG">>},
                DEPTH_OF_FIELD : {FALSE}]
    /\ RenderAtRest
    /\ DiskAtRest
    /\ BuildAtRest
    /\ view = DefaultView
    /\ studio = [cameras |-> "studio.cameras"]
    /\ snap = [cameras |-> "studio.cameras"]
    /\ run = NoRun
    /\ \E shared \in BOOLEAN :
          objs = [o \in Range(BlendObjects) |->
                    [data |-> CASE o = "_parent" -> NoActor
                                [] o = "J2" /\ shared -> "J1"
                                [] OTHER -> o,
                     library |-> o = "lib"]]
    /\ heap \in [{"J1", "J2", "pcb", "lib"} -> MaterialLists]
    /\ ov = <<>>
    /\ job = [at |-> "start", component |-> NoActor, todo |-> Highlighted,
              rendered |-> FALSE, original |-> heap]

\* `with ju.hide_override(hidden), ju.material_override(white_mat,
\* list(bpy.data.objects)):` is entered
EnterOuter ==
    /\ job.at = "start"
    /\ ov' = <<[components |-> BlendObjects,
                backup |-> material_backup(objs, heap, BlendObjects)]>>
    /\ heap' = material_override(white_mat, BlendObjects, 1, objs, heap)
    /\ job' = [job EXCEPT !.at = "outer"]
    /\ UNCHANGED <<renderVars, objs, view, studio, snap, run, diskVars, buildVars>>

\* `with ju.material_override(highlight_mat, [component]):` is entered for
\* the next component of the set
EnterInner(component) ==
    /\ job.at = "outer" /\ component \in job.todo
    /\ ov' = <<[components |-> <<component>>,
                backup |-> material_backup(objs, heap, <<component>>)]>> \o ov
    /\ heap' = material_override(highlight_mat, <<component>>, 1, objs, heap)
    /\ job' = [job EXCEPT !.at = "inner", !.component = component,
                          !.todo = @ \ {component}, !.rendered = FALSE]
    /\ UNCHANGED <<renderVars, objs, view, studio, snap, run, diskVars, buildVars>>

\* render_side(...) for the side the component is on
RenderSide ==
    /\ job.at = "inner" /\ ~job.rendered
    /\ job' = [job EXCEPT !.rendered = TRUE]
    /\ UNCHANGED <<renderVars, objs, view, ov, studio, snap, heap, run,
                   diskVars, buildVars>>

\* the inner `with` is left
ExitInner ==
    /\ job.at = "inner" /\ job.rendered
    /\ heap' = material_revert(ov[1].backup, ov[1].components, 1, objs, heap)
    /\ ov' = Tail(ov)
    /\ job' = [job EXCEPT !.at = "outer"]
    /\ UNCHANGED <<renderVars, objs, view, studio, snap, run, diskVars, buildVars>>

\* the loops are over and the outer `with` is left
ExitOuter ==
    /\ job.at = "outer" /\ job.todo = {}
    /\ heap' = material_revert(ov[1].backup, ov[1].components, 1, objs, heap)
    /\ ov' = Tail(ov)
    /\ job' = [job EXCEPT !.at = "done"]
    /\ UNCHANGED <<renderVars, objs, view, studio, snap, run, diskVars, buildVars>>

NextHighlights ==
    \/ EnterOuter
    \/ \E component \in Highlighted : EnterInner(component)
    \/ RenderSide
    \/ ExitInner
    \/ ExitOuter

SpecHighlights == InitHighlights /\ [][NextHighlights]_vars

(***************************************************************************)
(* SpecStudio: Studio.__init__ on a configuration and a loaded scene, then *)
(* the camera moves that jobs make.                                        *)
(***************************************************************************)
\* Studio.presets, in the order of the dictionary
StudioPresets == <<"TOP", "BOTTOM", "REAR">>

\* the cameras of Camera.presets that the Studio is constructed with
CameraPresets == <<"TOP", "FRONT">>

\* config.PCB_name
PCB_name == "pcb"

\* config.blendcfg["SCENE"]["RENDERED_OBJECT"]
RenderedObjects ==
    {<<>>, <<"Object", "part">>, <<"Object", "nope">>,
     <<"Collection", "Parts">>, <<"Collection", "Nope">>}

\* bpy.data of the loaded file: its objects and the objects of its collections
Scenes ==
    {[objects |-> <<"pcb", "part">>,
      collections |-> [Board |-> <<"pcb">>]],
     [objects |-> <<"pcb", "part", "camera_custom">>,
      collections |-> [Board |-> <<"pcb">>, Parts |-> <<"part">>]],
     [objects |-> <<>>, collections |-> EmptyMap],
     [objects |-> <<"part">>, collections |-> [Parts |-> <<"part">>]],
     [objects |-> <<"part", "camera_custom">>,
      collections |-> [Parts |-> <<"part">>]],
     [objects |-> <<"part", "other">>,
      collections |-> [Board |-> <<"other">>]]}

Configs ==
    [RENDERED_OBJECT : RenderedObjects,
     CAMERAS : [TOP : {TRUE}, FRONT : {FALSE}, LEFT : {FALSE}, CUSTOM : BOOLEAN],
     POSITIONS : {[TOP |-> TRUE, BOTTOM |-> FALSE, REAR |-> FALSE]},
     BACKGROUNDS : {<<"paper">>, <<"paper", "nope">>}]

\* cu.add_empty(name, children=...): a new empty object, parent of children
add_empty(name, children) == [name |-> name, children |-> Range(children)]

NoEmpty == [name |-> "", children |-> {}]

Classified(error, flags, rendered_obj, top_parent, empties) ==
    [error |-> error, is_pcb |-> "is_pcb" \in flags,
     is_collection |-> "is_collection" \in flags,
     is_object |-> "is_object" \in flags,
     rendered_obj |-> rendered_obj, top_parent |-> top_parent,
     empties |-> empties]

configure_as_singleobject(data, object_name) ==
    IF object_name \notin Range(data.objects)
    THEN Classified("RuntimeError", {"is_object"}, "", "", {})
    ELSE Classified(NoError, {"is_object"}, object_name, "_parent",
                    {add_empty("_parent", data.objects)})

configure_as_collection(data, collection_name) ==
    IF collection_name \notin DOMAIN data.collections
    THEN Classified("RuntimeError", {"is_collection"}, "", "", {})
    ELSE Classified(NoError, {"is_collection"}, "_rendered_parent", "_parent",
                    {add_empty("_rendered_parent", data.collections[collection_name]),
                     add_empty("_parent", data.objects \o <<"_rendered_parent">>)})

configure_as_PCB(data) ==
    Classified(NoError, {"is_pcb"}, PCB_name, PCB_name, {})

\* a faulty variant: the anchor is made without children
configure_as_unknown_childless(data) ==
    Classified(NoError, {}, "_parent", "_parent", {add_empty("_parent", <<>>)})

configure_as_unknown(data) ==
    Classified(NoError, {}, "_parent", "_parent",
               {add_empty("_parent", data.objects)})

\* a faulty variant: the board signature is looked for first
configure_model_data_board_first(config, data) ==
    IF "Board" \in DOMAIN data.collections /\ PCB_name \in Range(data.objects)
    THEN configure_as_PCB(data)
    ELSE configure_as_unknown(data)

\* Studio._configure_model_data
configure_model_data(config, data) ==
    LET obj_type == IF config.RENDERED_OBJECT # <<>>
                    THEN config.RENDERED_OBJECT[1] ELSE ""
        rendered_obj_name == IF config.RENDERED_OBJECT # <<>>
                             THEN config.RENDERED_OBJECT[2] ELSE ""
    IN IF obj_type = "Object"
       THEN configure_as_singleobject(data, rendered_obj_name)
       ELSE IF obj_type = "Collection"
       THEN configure_as_collection(data, rendered_obj_name)
       ELSE IF "Board" \in DOMAIN data.collections /\ PCB_name \in Range(data.objects)
       THEN configure_as_PCB(data)
       ELSE IF Len(data.objects) = 1
       THEN configure_as_singleobject(data, data.objects[1])
       ELSE configure_as_unknown(data)

\* what camera.align leaves in matrix_world and in the focus of the camera
\* for a position of the model
aligned(name, position) == [camera |-> name, position |-> position]

\* a faulty variant: only the enabled positions are saved
saved_presets_enabled(config) ==
    SelectSeq(StudioPresets, LAMBDA pos : config.POSITIONS[pos])

\* `for position, _ in Studio.presets.items():` of Studio._add_cameras
saved_presets(config) == StudioPresets

\* Camera(...), then camera.save_position and camera.save_focus for every
\* position of the loop, then camera.change_position("TOP")
NewCamera(name, config) ==
    LET keys == Range(saved_presets(config))
    IN [name |-> name,
        positions |-> [key \in keys |-> aligned(name, key)],
        focuses |-> [key \in keys |-> aligned(name, key)],
        matrix_world |-> aligned(name, "TOP"),
        focus |-> aligned(name, "TOP")]

\* Studio._add_cameras: Camera.objects, self.cameras, self.positions and the
\* warnings logged
add_cameras(config, data) ==
    LET custom == config.CAMERAS.CUSTOM /\ "camera_custom" \in Range(data.objects)
        objects == [i \in DOMAIN CameraPresets |-> NewCamera(CameraPresets[i], config)]
                   \o (IF custom THEN <<NewCamera("CUSTOM", config)>> ELSE <<>>)
    IN [objects |-> objects,
        cameras |-> SelectSeq([i \in DOMAIN objects |-> objects[i].name],
                              LAMBDA name : config.CAMERAS[name]),
        positions |-> SelectSeq(StudioPresets, LAMBDA pos : config.POSITIONS[pos]),
        warnings |-> IF config.CAMERAS.CUSTOM /\ ~custom
                     THEN {"no camera_custom"} ELSE {}]

\* Background.files: the backgrounds imported
BackgroundFiles == <<"transparent", "paper">>

\* a faulty variant: every name of the configuration is taken as a background
add_backgrounds_unfiltered(config) ==
    [objects |-> BackgroundFiles, backgrounds |-> config.BACKGROUNDS,
     warnings |-> {}]

\* Studio._add_backgrounds: Background.objects, self.backgrounds and the
\* warning logged
add_backgrounds(config) ==
    LET backgrounds == SelectSeq(BackgroundFiles,
                                 LAMBDA bg : bg \in Range(config.BACKGROUNDS))
    IN [objects |-> BackgroundFiles,
        backgrounds |-> backgrounds,
        warnings |-> IF Range(config.BACKGROUNDS) \ Range(backgrounds) # {}
                     THEN {"No such background"} ELSE {}]

\* Studio.__init__
NewStudio(config, data) ==
    LET model == configure_model_data(config, data)
        cams == add_cameras(config, data)
        bgs == add_backgrounds(config)
    IN IF model.error # NoError
       THEN [status |-> "raised", error |-> model.error,
             config |-> config, data |-> data, moved |-> FALSE]
       ELSE [status |-> "built", error |-> NoError,
             config |-> config, data |-> data,
             is_pcb |-> model.is_pcb, is_collection |-> model.is_collection,
             is_object |-> model.is_object,
             rendered_obj |-> model.rendered_obj, top_parent |-> model.top_parent,
             empties |-> model.empties,
             Camera_objects |-> cams.objects, cameras |-> cams.cameras,
             positions |-> cams.positions,
             Background_objects |-> bgs.objects, backgrounds |-> bgs.backgrounds,
             warnings |-> cams.warnings \cup bgs.warnings,
             position |-> "TOP", moved |-> FALSE]

InitStudio ==
    /\ cfg \in [KEEP_PNGS : {FALSE}, IMAGE_FORMAT : {<<"PNG">>},
                DEPTH_OF_FIELD : {FALSE}]
    /\ RenderAtRest
    /\ OverrideAtRest
    /\ JobsAtRest
    /\ DiskAtRest
    /\ \E config \in Configs, data \in Scenes :
          built = [status |-> "none", config |-> config, data |-> data]

Construct ==
    /\ built.status = "none"
    /\ built' = NewStudio(built.config, built.data)
    /\ UNCHANGED <<renderVars, overrideVars, jobVars, diskVars>>

\* a faulty variant: the saved transform is applied to where the camera is
camera_change_position_from_here(camera, key) ==
    [camera EXCEPT
        !.matrix_world = [camera |-> camera.name, position |-> key,
                          from |-> camera.matrix_world.position],
        !.focus = camera.focuses[key]]

\* Camera.change_position(key): matrix_world becomes a copy of the saved
\* transform, then change_focus(key) sets the saved focus
camera_change_position(camera, key) ==
    [camera EXCEPT !.matrix_world = camera.positions[key],
                   !.focus = camera.focuses[key]]

\* Studio.change_position(key): top_parent.rotation_euler = self.presets[key]
studio_change_position(s, key) == [s EXCEPT !.position = key]

\* Camera.change_position(key), Camera.change_focus(key) called by a job for
\* any camera that exists and any position
CameraChangePosition(c, key) ==
    /\ built.status = "built"
    /\ c \in DOMAIN built.Camera_objects
    /\ built' = IF key \in DOMAIN built.Camera_objects[c].positions
                   /\ key \in DOMAIN built.Camera_objects[c].focuses
                THEN [built EXCEPT
                        !.Camera_objects[c] = camera_change_position(@, key),
                        !.moved = TRUE]
                ELSE [built EXCEPT !.error = "KeyError", !.moved = TRUE]
    /\ UNCHANGED <<renderVars, overrideVars, jobVars, diskVars>>

\* Studio.change_position(key) called by a job
StudioChangePosition(key) ==
    /\ built.status = "built"
    /\ built' = [studio_change_position(built, key) EXCEPT !.moved = TRUE]
    /\ UNCHANGED <<renderVars, overrideVars, jobVars, diskVars>>

\* Camera.frame_selected(object) called by a job: the camera is moved to
\* frame the object, nothing is saved
CameraFrameSelected(c) ==
    /\ built.status = "built"
    /\ c \in DOMAIN built.Camera_objects
    /\ built' = [built EXCEPT
                    !.Camera_objects[c].matrix_world =
                        aligned(built.Camera_objects[c].name, "framed"),
                    !.moved = TRUE]
    /\ UNCHANGED <<renderVars, overrideVars, jobVars, diskVars>>

NextStudio ==
    \/ Construct
    \/ \E c \in 1..(Len(CameraPresets) + 1), key \in Range(StudioPresets) :
          CameraChangePosition(c, key)
    \/ \E c \in 1..(Len(CameraPresets) + 1) : CameraFrameSelected(c)
    \/ \E key \in Range(StudioPresets) : StudioChangePosition(key)

SpecStudio == InitStudio /\ [][NextStudio]_vars

(***************************************************************************)
(* Claims about jobs and the shared Studio (checked under SpecJob).        *)
(***************************************************************************)
\* the members, in order, of the lists of the shared Studio and its frames
SharedStudio ==
    [cameras |-> heap[studio.cameras], backgrounds |-> heap[studio.backgrounds],
     positions |-> heap[studio.positions],
     frame_start |-> studio.frame_start, frame_end |-> studio.frame_end]

\* C4: whatever the type of the job and whatever jobs ran before it, a call
\* of execute(studio) leaves the cameras, backgrounds and positions lists of
\* the shared Studio (members and order) and its frame_start and frame_end as
\* they were; what _override_studio narrows and what set_frames changes is in
\* the snapshot of the job alone.
C4_SharedStudioUnchanged == [][SharedStudio' = SharedStudio]_vars

C4_Witness ==
    /\ run.type = "Stackup" /\ run.status = "returned" /\ run.renders > 0
    /\ heap[snap.positions] = <<"TOP">>
    /\ heap[studio.positions] = <<"TOP", "BOTTOM">>
    /\ heap[snap.cameras] = <<"FRONT">> /\ heap[studio.cameras] = <<"TOP">>
    /\ heap[snap.backgrounds] = <<"transparent">>
    /\ heap[studio.backgrounds] = <<"transparent", "paper">>

\* the snapshot of the job executed last has no cameras, no positions or no
\* backgrounds
SnapshotEmpty ==
    \E f \in {"cameras", "positions", "backgrounds"} : heap[snap[f]] = <<>>

\* C10: when the snapshot of a job (a Job or a UserAnimationJob) is left by
\* _override_studio without cameras, without positions or without
\* backgrounds, report() returns 1, iterate() is not invoked, no render and no
\* encoder call is made and execute() returns normally.
C10_EmptySnapshotSkipsIterate ==
    (run.type # "none" /\ SnapshotEmpty)
    => (/\ run.skip = 1 /\ ~run.iterated
        /\ run.renders = 0 /\ run.encoder = 0
        /\ run.status = "returned" /\ run.error = NoError)

C10_Witness ==
    /\ run.type = "CameraTransition" /\ run.status = "returned"
    /\ heap[snap.cameras] = <<>> /\ heap[studio.cameras] = <<"TOP", "FRONT">>
    /\ heap[snap.positions] # <<>> /\ heap[snap.backgrounds] # <<>>
    /\ ~run.iterated

\* C11 (the claim as stated): a call of update_status with an integer, 0
\* included, sets the denominator to that integer and leaves the counter as it
\* was; a call without argument adds exactly 1 to the counter and leaves the
\* denominator as it was.
C11_UpdateStatusTwoModes ==
    \A i \in DOMAIN run.progress :
        LET call == run.progress[i] IN
        IF call.total.given
        THEN /\ call.after.total = call.total.value
             /\ call.after.iter = call.before.iter
        ELSE /\ call.after.iter = call.before.iter + 1
             /\ call.after.total = call.before.total

\* the FRAMES parameter ["start", "end"]
StartEnd == <<[key |-> "start", frame |-> 0], [key |-> "end", frame |-> 0]>>

\* C12: _parse_frames with FRAMES = [] leaves has_animation_data False and
\* the frame set {studio.frame_start}; with FRAMES = ["start", "end"] it
\* leaves has_animation_data True and, on a scene with authored keyframes,
\* the set of the first and the last authored frame; an explicit integer of
\* FRAMES is a member of the frame set as itself.
C12_ParseFrames ==
    run.type \in UserAnimationJobs =>
        /\ run.params = <<>> =>
              ~run.has_animation_data /\ run.frames = {snap.frame_start}
        /\ run.params = StartEnd =>
              /\ run.has_animation_data
              /\ studio.animation_data # NoAnimation =>
                    run.frames = {studio.animation_data.x, studio.animation_data.y}
        /\ \A i \in DOMAIN run.params :
              run.params[i].key \notin {"start", "end"} =>
                  run.params[i].frame \in run.frames

C12_Witness ==
    /\ run.type = "Static" /\ run.params = StartEnd
    /\ studio.animation_data = [x |-> 3, y |-> 5] /\ cfg.FPS = 2
    /\ run.has_animation_data /\ run.frames = {3, 5}

\* C13: UserAnimationJob.execute with a non-empty FRAMES, on a scene whose
\* authored keyframes span a..b, loads a..b into the snapshot of the job
\* before the frames are parsed, so that "start" resolves to a and "end" to b
\* and not to the defaults of the configuration; when report() is called the
\* frame range of the active scene is the minimum and the maximum of the
\* resolved frame set.
C13_AuthoredRangeBeforeParsing ==
    (/\ run.type \in UserAnimationJobs /\ run.params # <<>>
     /\ studio.animation_data # NoAnimation)
    => /\ snap.frame_start = studio.animation_data.x
       /\ snap.frame_end = studio.animation_data.y
       /\ \A i \in DOMAIN run.params :
             /\ run.params[i].key = "start" =>
                   studio.animation_data.x \in run.frames
             /\ run.params[i].key = "end" =>
                   studio.animation_data.y \in run.frames
       /\ Cardinality(run.frames) <= Len(run.params)
       /\ run.range = <<Min(run.frames), Max(run.frames)>>

C13_Witness ==
    /\ run.type = "Masks" /\ run.params # <<>> /\ run.params # StartEnd
    /\ studio.animation_data = [x |-> 3, y |-> 5]
    /\ studio.frame_start = 1 /\ studio.frame_end = 2
    /\ run.frames = {4, 5} /\ run.range = <<4, 5>> /\ run.iterated

\* C14: when execute() of a UserAnimationJob that injected the authored
\* animation ends, by returning or by an error that iterate() raised, no
\* scene entity carries animation data, and the backup of the Studio holds
\* the actions it held before, so that the next job finds them.
C14_InjectedAnimationCleared ==
    [][run'.injected =>
          /\ view'.animation = "cleared"
          /\ studio'.animation_data = studio.animation_data
          /\ studio'.animation_data # NoAnimation]_vars

C14_Witness ==
    /\ run.type = "Static" /\ run.injected
    /\ run.status = "raised" /\ run.error = "TypeError" /\ run.iterated
    /\ view.animation = "cleared"
    /\ studio.animation_data = [x |-> 3, y |-> 5]

\* the underlying renders of the outputs from i on
RECURSIVE Rendered(_, _)
Rendered(outputs, i) ==
    IF i > Len(outputs) THEN 0 ELSE outputs[i].rendered + Rendered(outputs, i + 1)

\* P * B * C * F of the job executed last
StaticProduct ==
    Len(heap[snap.positions]) * Len(heap[snap.backgrounds])
    * Len(heap[snap.cameras]) * Cardinality(run.frames)

\* C15 (the claim as stated): a Static job whose iterate() runs performs
\* exactly P * B * C * F underlying renders; every combination yields one
\* image and exactly one thumbnail of the same base name; the base names are
\* pairwise distinct; with FRAMES empty a name is the lowercased camera, the
\* first letter of the position, "_" and the background.
C15_StaticProduct ==
    (run.type = "Static" /\ run.iterated) =>
        /\ Rendered(run.outputs, 1) = StaticProduct
        /\ Len(run.outputs) = StaticProduct
        /\ \A i \in DOMAIN run.outputs :
              /\ run.outputs[i].files =
                    {render_path \o run.outputs[i].name \o ".png",
                     render_path \o run.outputs[i].name \o "_thumbnail.png"}
              /\ run.params = <<>> =>
                    run.outputs[i].name =
                        lower(run.outputs[i].at.camera)
                        \o initial(run.outputs[i].at.position) \o "_"
                        \o run.outputs[i].at.background
        /\ \A i, j \in DOMAIN run.outputs :
              run.outputs[i].name = run.outputs[j].name => i = j

\* with FRAMES empty and every render loadable the product is rendered
C15_EmptyFramesProduct ==
    /\ run.type = "Static" /\ run.params = <<>> /\ run.status = "returned"
    /\ Len(run.outputs) = 4 /\ Rendered(run.outputs, 1) = 4
    /\ run.outputs[1].name = "topT_transparent"
    /\ run.outputs[1].files = {"renders/topT_transparent.png",
                               "renders/topT_transparent_thumbnail.png"}

\* where a member stands in a list of the snapshot
IndexOf(list, e) == CHOOSE i \in DOMAIN list : list[i] = e

\* the place of an output in the nesting of the loops
PlaceOf(h, s, output) ==
    <<IndexOf(h[s.positions], output.at.position),
      IndexOf(h[s.backgrounds], output.at.background),
      IndexOf(h[s.cameras], output.at.camera), output.at.frame>>

LexLess(a, b) ==
    \E k \in 1..4 : a[k] < b[k] /\ \A m \in 1..(k - 1) : a[m] = b[m]

OutputNames(r) == [i \in DOMAIN r.outputs |-> r.outputs[i].name]

Videos(op) == {run.outputs[i].name : i \in {k \in DOMAIN run.outputs :
                                                 run.outputs[k].op = op}}

\* C17 (the claim as stated): a CameraTransition job whose iterate() runs
\* with n cameras and p positions returns normally and has encoded, for every
\* position P and every pair of cameras a before b of the list, exactly one
\* forward video <a><P>_<b><P> and one reversed video <b><P>_<a><P>:
\* 2 * p * n(n-1)/2 videos.
C17_EveryPairBothWays ==
    (run.type = "CameraTransition" /\ run.iterated) =>
        LET cameras == heap[snap.cameras]
            positions == heap[snap.positions]
        IN /\ run.status = "returned"
           /\ Len(run.outputs) = 2 * Len(positions) * Pairs(Len(cameras))
           /\ \A p \in DOMAIN positions : \A a, b \in DOMAIN cameras :
                 a < b =>
                    LET names == transition_names(cameras[a], positions[p],
                                                  cameras[b], positions[p])
                    IN names[1] \in Videos("run") /\ names[2] \in Videos("reverse")

\* the first pair is rendered and encoded both ways, then the job ends
C17_FirstPairThenError ==
    /\ run.type = "CameraTransition" /\ run.status = "raised"
    /\ run.error = "TypeError"
    /\ heap[snap.cameras] = <<"TOP", "FRONT">>
    /\ heap[snap.positions] = <<"TOP", "BOTTOM">>
    /\ Videos("run") = {"topT_frontT"} /\ Videos("reverse") = {"frontT_topT"}

\* C18: with the orthographic-camera setting on, execute() of a
\* CameraTransition job leaves the snapshot without cameras; the job is
\* skipped (iterate() is not invoked, no render, no encoder call), execute()
\* returns normally, and the camera list of the shared Studio holds the
\* members it held before, in the same order.
C18_OrthoSkipsCameraTransition ==
    [][(run'.type = "CameraTransition" /\ studio.is_ortho) =>
          /\ heap'[snap'.cameras] = <<>>
          /\ run'.skip = 1 /\ ~run'.iterated
          /\ run'.renders = 0 /\ run'.encoder = 0 /\ run'.outputs = <<>>
          /\ run'.status = "returned"
          /\ heap'[studio'.cameras] = heap[studio.cameras]]_vars

C18_Witness ==
    /\ run.type = "CameraTransition" /\ studio.is_ortho
    /\ run.status = "returned" /\ run.skip = 1 /\ run.progress = <<>>
    /\ heap[studio.cameras] = <<"TOP", "FRONT">> /\ heap[snap.cameras] = <<>>
    /\ heap[snap.positions] = <<"TOP", "BOTTOM">>
    /\ heap[snap.backgrounds] = <<"transparent">>

\* every mask the job executed last could render: one per position, camera,
\* frame, highlighted component and enabled subtype
AllMasks ==
    [position : Range(heap[snap.positions]), camera : Range(heap[snap.cameras]),
     frame : run.frames, component : highlighted_of(snap), state : run.subtypes]

\* the position shows the side of the board the component is mounted on
MatchingSide(component, position) ==
    \/ component \in Range(snap.top_components) /\ position = "TOP"
    \/ component \in Range(snap.bottom_components) /\ position = "BOTTOM"

\* C19: on a PCB model every mask the Masks job renders shows a highlighted
\* component in the position of its side (top components in TOP, bottom
\* components in BOTTOM, none in REAR); a job whose iterate() returns has
\* rendered each of these once per camera, frame and enabled subtype and
\* nothing else; with FULL only, 3 highlighted components, 1 camera and the
\* positions TOP and BOTTOM that is 3 renders.
C19_PcbMasksBySide ==
    (run.type = "Masks" /\ snap.is_pcb /\ run.iterated) =>
        /\ \A m \in run.masks : MatchingSide(m.component, m.position)
        /\ run.status = "returned" =>
              /\ run.masks = {m \in AllMasks : MatchingSide(m.component, m.position)}
              /\ run.renders = Cardinality(run.masks)
              /\ (/\ run.subtypes = {"full"}
                  /\ Cardinality(highlighted_of(snap)) = 3
                  /\ Len(heap[snap.cameras]) = 1
                  /\ heap[snap.positions] = <<"TOP", "BOTTOM">>) => run.renders = 3

C19_Witness ==
    /\ run.type = "Masks" /\ snap.is_pcb /\ run.status = "returned"
    /\ run.subtypes = {"full", "covered"}
    /\ heap[snap.positions] = <<"TOP", "BOTTOM", "REAR">>
    /\ heap[snap.cameras] = <<"TOP">>
    /\ highlighted_of(snap) = {"U1", "U2", "U3"}
    /\ {<<m.component, m.position>> : m \in run.masks}
          = {<<"U1", "TOP">>, <<"U3", "TOP">>, <<"U2", "BOTTOM">>}
    /\ run.renders = 6

\* C20 (the claim as stated): on a model that is not a PCB a Masks job whose
\* iterate() returns has rendered a mask of every component for every camera
\* in every position of its snapshot, TOP, BOTTOM and REAR alike.
C20_NonPcbMasksEverywhere ==
    (/\ run.type = "Masks" /\ ~snap.is_pcb
     /\ run.iterated /\ run.status = "returned")
    => /\ highlighted_of(snap) = Range(ComponentObjects)
       /\ run.masks = AllMasks

\* on a model that is not a PCB the masks are rendered in TOP alone
C20_NonPcbTopOnly ==
    /\ run.type = "Masks" /\ ~snap.is_pcb /\ run.status = "returned"
    /\ heap[snap.positions] = <<"TOP", "BOTTOM", "REAR">>
    /\ heap[snap.cameras] = <<"TOP", "FRONT">>
    /\ run.subtypes = {"covered"}
    /\ snap.top_components = snap.bottom_components
    /\ {m.position : m \in run.masks} = {"TOP"}
    /\ run.renders = 8

\* C21 (the claim as stated): a FlipTransition job whose snapshot has a
\* camera and a background works on the positions TOP and BOTTOM whatever
\* positions are configured; it returns normally and has encoded, for every
\* camera c, exactly the flip video <c>T_<c>B and its reverse <c>B_<c>T.
C21_FlipAlwaysTopBottom ==
    (/\ run.type = "FlipTransition"
     /\ heap[snap.cameras] # <<>> /\ heap[snap.backgrounds] # <<>>)
    => /\ heap[snap.positions] = <<"TOP", "BOTTOM">>
       /\ run.iterated /\ run.status = "returned"
       /\ Videos("run") =
             {transition_names(c, "TOP", c, "BOTTOM")[1] :
                 c \in Range(heap[snap.cameras])}
       /\ Videos("reverse") =
             {transition_names(c, "TOP", c, "BOTTOM")[2] :
                 c \in Range(heap[snap.cameras])}

\* with the one position TOP configured the job flips nothing
C21_OnePositionNoFlip ==
    /\ run.type = "FlipTransition" /\ run.status = "returned" /\ run.iterated
    /\ heap[studio.positions] = <<"TOP">> /\ heap[snap.positions] = <<"TOP">>
    /\ heap[snap.cameras] = <<"TOP", "FRONT">>
    /\ run.outputs = <<>> /\ run.renders = 0

TransparentJobs == {"CameraTransition", "FlipTransition", "Highlights", "Stackup"}

C22_KeepsConfigured ==
    /\ run.type \in TransparentJobs
    /\ "transparent" \notin Range(heap["Background.objects"])
    /\ heap[snap.backgrounds] = <<"paper">>

\* C23 (the claim as stated): a Stackup job whose iterate() runs on a PCB
\* model with N >= 2 layer objects returns normally after exactly N renders,
\* named layer1..layerN, each once; the k-th render shows exactly the first k
\* layers in ascending order of their name index, and all later layers and
\* all components are hidden. On a model that is no PCB, or has fewer than 2
\* layers, it renders nothing and returns normally.
C23_StackupLayerByLayer ==
    (run.type = "Stackup" /\ run.iterated) =>
       LET N == IF snap.is_pcb THEN snap.layers ELSE 0
           components == Range(snap.top_components)
                         \cup Range(snap.bottom_components)
       IN /\ run.status = "returned"
          /\ N < 2 => run.renders = 0 /\ run.outputs = <<>>
          /\ N >= 2 =>
                /\ run.renders = N /\ Len(run.outputs) = N
                /\ {run.outputs[k].name : k \in 1..N}
                      = {"layer" \o ToString(i) : i \in 1..N}
                /\ \A k \in 1..N :
                      /\ run.outputs[k].layer = LayerName(k)
                      /\ run.outputs[k].visible = {LayerName(j) : j \in 1..k}
                      /\ {LayerName(j) : j \in (k + 1)..N} \cup components
                            \subseteq run.outputs[k].hidden

\* a PCB with layers whose material has no solder switch: nothing is rendered
C23_NoSolderSwitch ==
    /\ run.type = "Stackup" /\ run.iterated /\ snap.is_pcb /\ snap.layers >= 2
    /\ run.status = "raised" /\ run.error = "UnboundLocalError"
    /\ run.renders = 0 /\ run.outputs = <<>>

\* with the solder switch the layers are rendered from the first one up, the
\* first render being named after the number of layers
C23_RendersAllLayers ==
    /\ run.type = "Stackup" /\ run.status = "returned" /\ snap.layers >= 2
    /\ Len(run.outputs) = snap.layers
    /\ run.outputs[1].name = "layer" \o ToString(snap.layers)
    /\ run.outputs[1].visible = {"PCB_layer1"}
    /\ run.outputs[snap.layers].name = "layer1"
    /\ run.outputs[snap.layers].hidden =
          Range(snap.top_components) \cup Range(snap.bottom_components)
          \cup {"Solder"}

\* the combinations a video job loops over
VideoCombinations ==
    CASE run.type = "CameraTransition" ->
            Pairs(Len(heap[snap.cameras])) * Len(heap[snap.positions])
      [] run.type = "FlipTransition" ->
            Pairs(Len(heap[snap.positions])) * Len(heap[snap.cameras])
      [] OTHER ->
            Len(heap[snap.cameras]) * Len(heap[snap.positions])
            * Len(heap[snap.backgrounds])

\* C24 (the claim as stated): when the encoder exits non-zero for the first
\* combination of a CameraTransition, FlipTransition or Animation job, the
\* job still returns normally, has rendered every combination (the failed one
\* and all remaining ones), and clear_frames() has run at its end.
C24_EncoderFailureConfined ==
    (/\ run.type \in VideoJobs /\ run.iterated
     /\ run.returncode # 0 /\ run.encoder > 0)
    => /\ run.status = "returned"
       /\ run.renders = VideoCombinations
       /\ run.cleared_frames

\* the encoder fails for the first of three combinations: the job raises
\* after one render, and clear_frames() is not reached
C24_EncoderFailureAborts ==
    /\ run.type = "FlipTransition" /\ run.iterated /\ run.returncode # 0
    /\ VideoCombinations = 3
    /\ run.status = "raised" /\ run.error = "CalledProcessError"
    /\ run.renders = 1 /\ run.encoder = 1 /\ ~run.cleared_frames

\* the files of a combination whose render was saved
SavedFiles(output) ==
    {render_path \o output.name \o ".png",
     render_path \o output.name \o "_thumbnail.png"}

\* C25 (the claim as stated): when the render of one combination of a Static
\* job leaves no loadable cache file, no image is saved for that combination,
\* the job raises nothing, the scene is rendered once only for that
\* combination, and every other combination is rendered once and saved.
C25_FailedRenderNotRetried ==
    (run.type = "Static" /\ run.iterated /\ run.fails \in DOMAIN run.outputs)
    => /\ run.status = "returned"
       /\ Len(run.outputs) = StaticProduct
       /\ \A i \in DOMAIN run.outputs :
             IF i = run.fails
             THEN run.outputs[i].files = {} /\ run.outputs[i].rendered = 1
             ELSE /\ run.outputs[i].files = SavedFiles(run.outputs[i])
                  /\ run.outputs[i].rendered = 1

\* C25 (amended): when the render of one combination of a Static job leaves
\* no loadable cache file, no image is saved for that combination and the job
\* raises nothing and goes on: every other combination is rendered once and
\* saved with its thumbnail.  The failed combination is rendered twice, by
\* render() and again by thumbnail(), which finds no cached image.
C25_FailedRenderSkipped ==
    (run.type = "Static" /\ run.iterated /\ run.fails \in DOMAIN run.outputs)
    => /\ run.status = "returned"
       /\ Len(run.outputs) = StaticProduct
       /\ \A i \in DOMAIN run.outputs :
             IF i = run.fails
             THEN run.outputs[i].files = {} /\ run.outputs[i].rendered = 2
             ELSE /\ run.outputs[i].files = SavedFiles(run.outputs[i])
                  /\ run.outputs[i].rendered = 1

\* the first of four combinations fails and the three after it are saved
C25_Witness ==
    /\ run.type = "Static" /\ run.status = "returned" /\ run.fails = 1
    /\ Len(run.outputs) = 4
    /\ run.outputs[1].files = {} /\ run.outputs[1].rendered = 2
    /\ \A i \in 2..4 : run.outputs[i].files = SavedFiles(run.outputs[i])

\* <name>_<4-digit frame>.<ext>: a name, an underscore, four digits, a dot
\* and an extension without a dot
IsFrameFile(file) ==
    \E i \in 1..Len(file) :
        /\ Len(file) >= i + 7
        /\ file[i + 1] = "_"
        /\ \A d \in (i + 2)..(i + 5) : file[d] \in Digits
        /\ file[i + 6] = "."
        /\ \A e \in (i + 7)..Len(file) : file[e] # "."

\* C26 (the claim as stated): clear_frames() with keep-intermediates off
\* deletes from the render directory exactly the files named
\* <name>_<4-digit frame>.<ext> and leaves every other file in place, a frame
\* number of 5 digits and a <name>_<4 digits>_thumbnail.<ext> included; with
\* keep-intermediates on it deletes nothing.
C26_ClearFramesExact ==
    disk.called =>
        disk.files = IF cfg.KEEP_PNGS THEN disk.before
                     ELSE {file \in disk.before : ~IsFrameFile(file)}

\* clear_frames() has deleted the thumbnail of a frame and a file whose frame
\* number has 5 digits
C26_DeletesMore ==
    /\ disk.called /\ ~cfg.KEEP_PNGS
    /\ disk.before = listdir
    /\ disk.files = {<<"a", ".", "p">>, <<"a", "_", "0", "0", "1", ".", "p">>,
                     <<"a", "_", "0", "0", "0", "1">>}

(***************************************************************************)
(* Claims about Studio construction (checked under SpecStudio).            *)
(***************************************************************************)
Flags ==
    {f \in {"is_pcb", "is_collection", "is_object"} : built[f]}

ObjType ==
    IF built.config.RENDERED_OBJECT = <<>> THEN ""
    ELSE built.config.RENDERED_OBJECT[1]

BoardSignature ==
    /\ "Board" \in DOMAIN built.data.collections
    /\ PCB_name \in Range(built.data.objects)

\* C27: a Studio that was constructed is classified by a fixed precedence: a
\* configured Object gives is_object alone, else a configured Collection
\* gives is_collection alone, else a scene with the Board collection and the
\* object named after the PCB gives is_pcb alone; at most one of the three
\* flags is ever set.
C27_ClassificationPrecedence ==
    built.status = "built" =>
        /\ Cardinality(Flags) <= 1
        /\ ObjType = "Object" => Flags = {"is_object"}
        /\ ObjType = "Collection" => Flags = {"is_collection"}
        /\ (ObjType = "" /\ BoardSignature) => Flags = {"is_pcb"}

\* a scene with the board signature, configured to render one object of it
C27_Witness ==
    /\ built.status = "built" /\ BoardSignature
    /\ built.config.RENDERED_OBJECT = <<"Object", "part">>
    /\ Flags = {"is_object"} /\ built.rendered_obj = "part"

\* the empty object of that name that parents exactly the objects named
Anchor(name, children) == [name |-> name, children |-> children] \in built.empties

\* C28 (the claim as stated): with no object or collection configured and no
\* board signature, the Studio has none of the three flags set for every
\* number of scene objects, and rendered_obj and top_parent are the same
\* synthesized anchor, parent of every scene object.
C28_UnknownForAnyScene ==
    (built.status = "built" /\ ObjType = "" /\ ~BoardSignature) =>
        /\ Flags = {}
        /\ built.rendered_obj = "_parent" /\ built.top_parent = "_parent"
        /\ Anchor("_parent", Range(built.data.objects))

\* C28 (amended): with no object or collection configured and no board
\* signature, a scene of no object or of two and more objects is classified
\* Unknown: no flag is set and rendered_obj and top_parent are the same
\* synthesized anchor, parent of every scene object.  A scene of exactly one
\* object is classified SingleObject: is_object alone is set, rendered_obj is
\* that object and top_parent is the synthesized anchor that parents it.
C28_UnknownUnlessOneObject ==
    (built.status = "built" /\ ObjType = "" /\ ~BoardSignature) =>
        /\ built.top_parent = "_parent"
        /\ Anchor("_parent", Range(built.data.objects))
        /\ IF Len(built.data.objects) = 1
           THEN Flags = {"is_object"} /\ built.rendered_obj = built.data.objects[1]
           ELSE Flags = {} /\ built.rendered_obj = "_parent"

\* two objects, a Board collection but no object named after the PCB
C28_Witness ==
    /\ built.status = "built" /\ ObjType = "" /\ ~BoardSignature
    /\ built.data.objects = <<"part", "other">>
    /\ Flags = {} /\ built.rendered_obj = built.top_parent
    /\ Anchor("_parent", {"part", "other"})

\* the scene of one object is rendered as a single object
C28_OneObject ==
    /\ built.status = "built" /\ ObjType = "" /\ ~BoardSignature
    /\ built.data.objects = <<"part">>
    /\ Flags = {"is_object"} /\ built.rendered_obj = "part"
    /\ built.top_parent = "_parent"

MissingBackgrounds ==
    Range(built.config.BACKGROUNDS) \ Range(BackgroundFiles)

MissingCustomCamera ==
    /\ built.config.CAMERAS.CUSTOM
    /\ "camera_custom" \notin Range(built.data.objects)

MissingRenderedObject ==
    \/ (ObjType = "Object"
        /\ built.config.RENDERED_OBJECT[2] \notin Range(built.data.objects))
    \/ (ObjType = "Collection"
        /\ built.config.RENDERED_OBJECT[2] \notin DOMAIN built.data.collections)

\* C29 (the claim as stated): when the configuration lists a background that
\* was not imported, or enables the custom camera in a scene without a
\* camera_custom object, Studio construction raises, as it does for a
\* missing named object or collection, and no job runs.
C29_MissingActorRaises ==
    (built.status # "none" /\ (MissingBackgrounds # {} \/ MissingCustomCamera))
    => built.status = "raised"

\* C29 (amended): Studio construction raises exactly when the configured
\* object or collection is missing.  A listed background that was not
\* imported, or the custom camera enabled in a scene without a camera_custom
\* object, is logged as a warning and left out of the backgrounds and the
\* cameras of the Studio, which is constructed and on which jobs run.
C29_MissingActorWarns ==
    /\ built.status = "raised" => (MissingRenderedObject /\ ~built.moved)
    /\ built.status = "built" =>
          /\ ~MissingRenderedObject
          /\ "No such background" \in built.warnings <=> MissingBackgrounds # {}
          /\ "no camera_custom" \in built.warnings <=> MissingCustomCamera
          /\ Range(built.backgrounds) =
                Range(built.config.BACKGROUNDS) \cap Range(BackgroundFiles)
          /\ MissingCustomCamera =>
                /\ "CUSTOM" \notin Range(built.cameras)
                /\ \A c \in DOMAIN built.Camera_objects :
                      built.Camera_objects[c].name # "CUSTOM"

\* both are missing, the Studio is constructed and a job has moved a camera
C29_Witness ==
    /\ built.status = "built" /\ built.moved
    /\ MissingBackgrounds = {"nope"} /\ MissingCustomCamera
    /\ built.warnings = {"No such background", "no camera_custom"}
    /\ built.backgrounds = <<"paper">> /\ built.cameras = <<"TOP">>

SavedEntries ==
    [c \in DOMAIN built.Camera_objects |->
        [positions |-> built.Camera_objects[c].positions,
         focuses |-> built.Camera_objects[c].focuses]]

\* C30: once the Studio is constructed, every Camera that exists, preset or
\* custom, enabled or not, has a saved transform and a saved focus for each
\* of TOP, BOTTOM and REAR, enabled or not, so that no change_position fails
\* on a missing entry; and no move a job makes adds, removes or changes a
\* saved entry.
C30_SavedForEveryPreset ==
    /\ [](built.status = "built" =>
            /\ built.error = NoError
            /\ \A c \in DOMAIN built.Camera_objects :
                  /\ DOMAIN built.Camera_objects[c].positions = Range(StudioPresets)
                  /\ DOMAIN built.Camera_objects[c].focuses = Range(StudioPresets)
                  /\ \A key \in Range(StudioPresets) :
                        /\ built.Camera_objects[c].positions[key] =
                              aligned(built.Camera_objects[c].name, key)
                        /\ built.Camera_objects[c].focuses[key] =
                              aligned(built.Camera_objects[c].name, key))
    /\ [][built.status = "built" => SavedEntries' = SavedEntries]_vars

\* a camera that is not enabled and the custom camera have been moved to
\* positions that are not enabled
C30_Witness ==
    /\ built.status = "built" /\ built.moved /\ built.error = NoError
    /\ built.positions = <<"TOP">> /\ built.cameras = <<"TOP", "CUSTOM">>
    /\ built.Camera_objects[2].name = "FRONT"
    /\ built.Camera_objects[2].matrix_world = aligned("FRONT", "REAR")
    /\ built.Camera_objects[3].name = "CUSTOM"
    /\ built.Camera_objects[3].focus = aligned("CUSTOM", "BOTTOM")

\* C31: Studio.change_position(key) and Camera.change_position(key) give a
\* model rotation, a camera transform and a camera focus that depend on key
\* alone, whatever position was held before, and a second call with the same
\* key changes nothing.
C31_ChangePositionIdempotent ==
    built.status = "built" =>
        \A key \in Range(StudioPresets) :
            /\ studio_change_position(built, key).position = key
            /\ studio_change_position(studio_change_position(built, key), key)
                  = studio_change_position(built, key)
            /\ \A c \in DOMAIN built.Camera_objects :
                  LET camera == built.Camera_objects[c]
                      once == camera_change_position(camera, key)
                  IN /\ once.matrix_world = aligned(camera.name, key)
                     /\ once.focus = aligned(camera.name, key)
                     /\ camera_change_position(once, key) = once
                     /\ \A other \in Range(StudioPresets) :
                           camera_change_position(
                               camera_change_position(camera, other), key) = once

\* the model and a camera were moved away from TOP, the camera then framed
\* an object: the position held before a call is not the one asked for
C31_Witness ==
    /\ built.status = "built" /\ built.moved
    /\ built.position = "REAR"
    /\ built.Camera_objects[1].matrix_world = aligned("TOP", "framed")
    /\ built.Camera_objects[1].focus = aligned("TOP", "BOTTOM")

\* the frames of a set, one after another in ascending order
Ascending(frames) ==
    CHOOSE q \in [1..Cardinality(frames) -> frames] :
        /\ Range(q) = frames
        /\ \A i, j \in DOMAIN q : i < j => q[i] < q[j]

\* the frames of the outputs made for the view of the first output
FramesOfFirstView(outputs) ==
    LET same == SelectSeq(outputs,
                  LAMBDA o : /\ o.at.position = outputs[1].at.position
                             /\ o.at.background = outputs[1].at.background
                             /\ o.at.camera = outputs[1].at.camera)
    IN [i \in DOMAIN same |-> same[i].at.frame]

\* C32 (the claim as stated): a Static job whose iterate() runs renders, for
\* each view, every frame of its resolved frame set, in ascending order of
\* the frame number, whatever FRAMES lists.
C32_FramesAscending ==
    (run.type = "Static" /\ run.iterated /\ StaticProduct > 0) =>
        /\ run.status = "returned"
        /\ run.outputs # <<>>
        /\ FramesOfFirstView(run.outputs) = Ascending(run.frames)
        /\ iter_set(run.frames) = Ascending(run.frames)

\* FRAMES is ["end", 9] on a scene whose animation ends at frame 5: the job
\* raises before its first render, and its loop would take frame 9 first
C32_NineBeforeFive ==
    /\ run.type = "Static" /\ run.iterated /\ run.frames = {5, 9}
    /\ run.status = "raised" /\ run.error = "TypeError" /\ run.outputs = <<>>
    /\ iter_set(run.frames) = <<9, 5>>

\* C33 (the claim as stated): whenever iterate() has declared a total and
\* finished without error, the progress counter equals the total it declared
\* and has never exceeded it during the job, for every type of job.
C33_ProgressReachesTotal ==
    (run.iterated /\ run.status = "returned" /\ run.progress # <<>>) =>
        LET declared == run.progress[1].total.value
        IN /\ run.progress[Len(run.progress)].after.iter = declared
           /\ \A i \in DOMAIN run.progress :
                 run.progress[i].after.iter <= declared

\* a Masks job on a PCB shown from TOP only: the total counts the component
\* of the bottom side, which is skipped, and the counter ends below it
C33_MasksShortOfTotal ==
    /\ run.type = "Masks" /\ run.status = "returned" /\ snap.is_pcb
    /\ run.iterated /\ run.progress # <<>>
    /\ heap[snap.positions] = <<"TOP">> /\ heap[snap.cameras] = <<"TOP">>
    /\ run.subtypes = {"full"}
    /\ run.progress[1].total.value = 3
    /\ run.progress[Len(run.progress)].after = [iter |-> 2, total |-> 3]

\* a FlipTransition job with one position declares 0, which counts as a step
C33_ZeroTotalCounted ==
    /\ run.type = "FlipTransition" /\ run.status = "returned"
    /\ heap[snap.positions] = <<"TOP">>
    /\ run.progress = <<[total |-> Total(0), before |-> NewProgress,
                         after |-> [iter |-> 1, total |-> 1]]>>

\* C34: a job that starts after a job that returned normally finds no
\* animation data on any scene entity, and when it is not a UserAnimationJob
\* its iterate() begins with the scene frame range 1..FPS, whatever range
\* the job before left in the scene.
C34_CleanStartAfterReturn ==
    [][run.status = "returned" =>
          /\ view.animation = "cleared"
          /\ run'.type \notin UserAnimationJobs
                => run'.range = <<1, cfg.FPS>>]_vars

C34_Witness ==
    /\ run.type = "Highlights" /\ run.reset /\ run.iterated
    /\ run.range = <<1, cfg.FPS>>
    /\ studio.animation_data = [x |-> 3, y |-> 5]
    /\ view.animation = "cleared"

C35_StillsDeleted ==
    /\ disk.called /\ ~cfg.KEEP_PNGS
    /\ disk.stills = {<<"a", "_", "0", "0", "0", "1", ".", "p">>,
                      <<"a", "_", "0", "0", "0", "1", "_", "t", ".", "p">>}
    /\ disk.stills \subseteq disk.before
    /\ disk.stills \cap disk.files = {}

\* the outputs of a Static job without FRAMES survive
C35_UnnumberedSurvive ==
    /\ disk.called /\ ~cfg.KEEP_PNGS
    /\ disk.stills = {<<"a", ".", "p">>, <<"a", "_", "t", ".", "p">>}
    /\ disk.stills \subseteq disk.files

\* C36 (the claim as stated): in every job that renders, the first render
\* is preceded within the job by a Background.use of a background of the
\* job's snapshot, for Masks and Animation as for Static.
C36_RenderAfterBackgroundUse ==
    run.renders > 0 => run.background \in Range(heap[snap.backgrounds])

\* a Masks job renders its masks and never calls Background.use
C36_MasksWithoutUse ==
    /\ run.type = "Masks" /\ run.status = "returned" /\ run.renders > 0
    /\ run.background = NoActor
    /\ heap[snap.backgrounds] = <<"transparent", "paper">>

\* every other job has called it when it renders
C36_OthersUse ==
    (run.renders > 0 /\ run.type # "Masks")
        => run.background \in Range(heap[snap.backgrounds])

C36_StaticUses ==
    /\ run.type = "Static" /\ run.renders > 0
    /\ run.background = "transparent"
    /\ heap[snap.backgrounds] = <<"transparent", "paper">>

\* every slot of the object holds the material
Carries(o, material) ==
    \A k \in DOMAIN material_slots(objs, heap, o) :
        material_slots(objs, heap, o)[k] = material

\* C37 (the claim as stated): while a component is rendered it alone carries
\* the highlight material and every other object that is not linked the
\* white one; once its inner scope is left it carries the white material
\* again; once iterate() has ended every mesh has the materials it had.
C37_StackDiscipline ==
    /\ (job.at = "inner" /\ job.rendered) =>
          \A o \in Range(BlendObjects) :
              /\ (o = job.component /\ material_slots(objs, heap, o) # <<>>)
                    => Carries(o, highlight_mat)
              /\ (o # job.component /\ ~objs[o].library
                     /\ material_slots(objs, heap, o) # <<>>)
                    => Carries(o, white_mat)
    /\ (job.at = "outer" /\ job.component # NoActor)
          => (Carries(job.component, white_mat)
              /\ material_slots(objs, heap, job.component) # <<>>)
    /\ job.at = "done" => heap = job.original

\* J2 shares the mesh of J1: while J1 is rendered J2 is highlighted as well
C37_SharedMeshHighlighted ==
    /\ job.at = "inner" /\ job.rendered /\ job.component = "J1"
    /\ objs["J2"].data = objs["J1"].data
    /\ material_slots(objs, heap, "J2") = <<highlight_mat>>
    /\ job.original["J1"] = <<>>

\* on objects that share no mesh the discipline holds
C37_DisciplineUnshared ==
    objs["J2"].data # objs["J1"].data => C37_StackDiscipline

\* the materials are those of the loaded file once iterate() has ended, also
\* on meshes without a slot and on a shared mesh
C37_RestoredAtEnd ==
    job.at = "done" => heap = job.original /\ ov = <<>>

C37_RestoredShared ==
    /\ job.at = "done" /\ objs["J2"].data = objs["J1"].data
    /\ heap = job.original
    /\ heap["J1"] = <<>> /\ heap["pcb"] = <<"copper", "mask">>

\* the suffix the job executed last gives to a frame of its resolved set
SuffixOf(frame) == get_frame_suffix([FRAMES |-> run.params], run.frames, frame)

\* the frames that FRAMES lists as integers
Explicit ==
    {run.params[i].frame : i \in {j \in DOMAIN run.params :
                                     run.params[j].key \notin {"start", "end"}}}

\* C38 (the claim as stated): for a non-empty FRAMES, distinct frames of the
\* resolved set get distinct suffixes; "_start" goes only to the frame the
\* keyword "start" resolved to and "_end" only to the frame "end" resolved
\* to; a listed integer frame that is neither gets its 4-digit number.
C38_SuffixNamesAnchor ==
    (run.type \in UserAnimationJobs /\ run.params # <<>>) =>
        /\ \A f, g \in run.frames : f # g => SuffixOf(f) # SuffixOf(g)
        /\ \A f \in run.frames :
              /\ SuffixOf(f) = "_start" =>
                    (InFrames([FRAMES |-> run.params], "start")
                     /\ f = snap.frame_start)
              /\ SuffixOf(f) = "_end" =>
                    (InFrames([FRAMES |-> run.params], "end")
                     /\ f = snap.frame_end)
              /\ (f \in Explicit
                    /\ ~(InFrames([FRAMES |-> run.params], "start")
                         /\ f = snap.frame_start)
                    /\ ~(InFrames([FRAMES |-> run.params], "end")
                         /\ f = snap.frame_end))
                    => SuffixOf(f) = "_" \o Fmt04(f)

\* FRAMES is ["end", 9] and "end" resolves to 5: frame 9 is named "_end" and
\* the end of the animation "_0005"
C38_NineNamedEnd ==
    /\ run.type = "Static" /\ run.frames = {5, 9} /\ snap.frame_end = 5
    /\ Explicit = {9}
    /\ SuffixOf(9) = "_end" /\ SuffixOf(5) = "_0005"

\* the suffixes of distinct frames are distinct all the same
C38_SuffixesDistinct ==
    (run.type \in UserAnimationJobs /\ run.params # <<>>) =>
        \A f, g \in run.frames : f # g => SuffixOf(f) # SuffixOf(g)

\* an explicit frame inside the range keeps its number: FRAMES is
\* ["end", 4] on the range 3..5
C38_FourKeepsNumber ==
    /\ run.type = "Static" /\ run.frames = {4, 5} /\ snap.frame_end = 5
    /\ SuffixOf(4) = "_0004" /\ SuffixOf(5) = "_end"

\* C39 (the claim as stated): solder_switch_override raises nothing, with
\* or without the solder-switch node group: a Stackup job that reaches its
\* overrides on a PCB with N >= 2 layers returns normally and has rendered
\* its N layers.
C39_SolderSwitchNoOp ==
    (/\ run.type = "Stackup" /\ run.iterated
     /\ snap.is_pcb /\ snap.layers >= 2
     /\ \A f \in {"positions", "backgrounds", "cameras"} : heap[snap[f]] # <<>>)
        => /\ run.error \notin {"UnboundLocalError", "KeyError"}
           /\ run.status = "returned"
           /\ run.renders = snap.layers

\* without the node group the job ends in the finally clause of the
\* override, before the first layer is rendered, with the total declared
C39_RaisesUnbound ==
    /\ run.type = "Stackup" /\ run.iterated /\ snap.layers = MaxLayers
    /\ heap[snap.cameras] = <<"FRONT">>
    /\ run.status = "raised" /\ run.error = "UnboundLocalError"
    /\ run.renders = 0
    /\ run.progress # <<>>

=============================================================================
